---------------------------- MODULE Spec2Model ----------------------------
(***************************************************************************)
(* Credential verification cache of the code-to-image Lambda.              *)
(*                                                                         *)
(*   db/tokenVerifier  (src/src/svgGenerator.js, lines 41-219)             *)
(*   db/connectionPool (src/unnamed/part_000,   lines 1-122)               *)
(*   utils/secretsManager (src/unnamed/part_000, lines 340-430)            *)
(*   store-backed handler (src/unnamed/part_001, lines 23-205)             *)
(*                                                                         *)
(* Node.js runs one piece of JavaScript at a time: the code between two    *)
(* awaits is one atomic step.  Each action below is one such piece, the    *)
(* synchronous call chain included (handler -> verifyToken ->              *)
(* queryDatabase -> query -> getPool -> initializePool ->                  *)
(* getDatabaseCredentials).  A continuation that the microtask queue runs  *)
(* directly behind the step that made it ready, with nothing able to run   *)
(* between, is part of that step.                                          *)
(***************************************************************************)
EXTENDS Integers, FiniteSets, Sequences, TLC

(* ------------------------------ bounds ------------------------------- *)
NumInv == 2          \* concurrent handler invocations in the process
MaxTime == 3         \* the clock runs 1..MaxTime
MaxAttempts == 2     \* initializePool() calls in one run
MaxFetch == 2        \* GetSecretValue requests sent by direct callers

(* ---------------------------- constants ------------------------------ *)
CACHE_TTL == 2       \* TOKEN_CACHE_TTL, in clock units
NoExpiry == 0        \* expires_at IS NULL (the clock starts at 1)
NoPool == 0          \* pool = null, initPromise = null, poolInstance unset

Invocations == 1..NumInv
Attempts == 1..MaxAttempts

Tokens == {"tok_abc", "tok_xyz"}  \* the keys the cache and the table can hold
Presented == {"tok_abc"}          \* the credential the handler's callers present
AbsentToken == ""                 \* undefined or '' : falsy
NonStringToken == "<number>"      \* a truthy value that is not a string
TokenInputs == Presented \cup {AbsentToken, NonStringToken}

IsTruthy(t) == t # AbsentToken
IsString(t) == t # NonStringToken

UserOf(t) == IF t = "tok_abc" THEN "u1" ELSE "u2"   \* user_id of the row

(* A row of api_tokens, or NoRow when the SELECT returns no row. *)
(* is_active is "true", "false" or "null": the column is a nullable
   BOOLEAN as far as the SELECT of lines 141-151 knows. *)
NoRow == [found |-> FALSE, is_active |-> "false", expires_at |-> NoExpiry]
Rows == [found : {TRUE}, is_active : {"true", "false"}, expires_at : {NoExpiry, 1}]
Records == Rows \cup {NoRow}
NullRows == [found : {TRUE}, is_active : {"null"}, expires_at : {NoExpiry, 1}]

VARIABLES
  now,               \* Date.now()
  store,             \* api_tokens: token -> record
  tokenCache,        \* Map token -> entry ([present |-> FALSE] when unset)
  pool,              \* module variable pool (NoPool = null)
  isInitializing,    \* module variable isInitializing
  initPromise,       \* module variable initPromise: an attempt id or NoPool
  cachedCredentials, \* secretsManager: credentials memoized
  secretName,        \* process.env.DB_SECRET_NAME is set
  attempts,          \* attempt id -> state of that initializePool() call
  nAttempts,         \* initializePool() calls so far
  nPools,            \* new Pool() constructions so far
  nFetch,            \* GetSecretValue requests sent so far
  pools,             \* pool id -> "none" | "connecting" | "live" | "failed"
  errored,           \* pools that emitted 'error' while they were the singleton
  pc,                \* invocation -> position
  token,             \* invocation -> the request's token
  att,               \* invocation -> attempt its getPool call started or joined
  poolInstance,      \* invocation -> pool its getPool call returned
  nq,                \* invocation -> query() calls made by its verifyToken
  why,               \* invocation -> what the cache check found
  lastOk,            \* token -> the entry a store lookup cached, until
                     \* verifyToken evicts it (clearCache does not reset it)
  ret,               \* invocation -> what it returned in the last step
  mode,              \* which handler the deployment runs: "store" | "jaas"
  credPc,            \* caller -> position of its direct getDatabaseCredentials call
  credRet,           \* caller -> how that call settled in the last step
  baseUrl,           \* jaasClient: JAAS_BASE_URL, "unset" | "invalid" | "ok"
  jaas,              \* invocation -> locals of its validateApiKey call
  jret,              \* invocation -> what it returned in the last step (JAAS)
  served             \* keys validateApiKey has answered valid=true for so far

vars == <<now, store, tokenCache, pool, isInitializing, initPromise,
          cachedCredentials, secretName, attempts, nAttempts, nPools, nFetch,
          pools, errored, pc, token, att, poolInstance, nq, why, lastOk, ret,
          mode, credPc, credRet, baseUrl, jaas, jret, served>>

poolVars == <<pool, isInitializing, initPromise, cachedCredentials, attempts,
              nAttempts, nPools, nFetch, pools>>

localVars == <<pc, token, att, poolInstance, nq, why>>

jaasVars == <<baseUrl, jaas, jret, served>>

sideVars == <<mode, credPc, credRet, jaasVars>>

storeVars == <<now, store, tokenCache, poolVars, secretName, errored, localVars,
               lastOk, ret>>

(* --------------------------- verification results -------------------- *)
NoResult == [isValid |-> FALSE, userId |-> "null", error |-> "", expiresAt |-> NoExpiry]

TokenRequired == [isValid |-> FALSE, userId |-> "null",
                  error |-> "Token is required", expiresAt |-> NoExpiry]

VerificationFailed == [isValid |-> FALSE, userId |-> "null",
                       error |-> "Token verification failed", expiresAt |-> NoExpiry]

(* queryDatabase with the is_active test of lines 165-171 left out. *)
queryDatabase_NoActiveCheck(t, rec, time) ==
  IF ~rec.found
    THEN [isValid |-> FALSE, userId |-> "null", error |-> "Token not found",
          expiresAt |-> NoExpiry]
  ELSE IF rec.expires_at # NoExpiry /\ rec.expires_at < time
    THEN [isValid |-> FALSE, userId |-> UserOf(t), error |-> "Token has expired",
          expiresAt |-> rec.expires_at]
  ELSE [isValid |-> TRUE, userId |-> UserOf(t), error |-> "",
        expiresAt |-> rec.expires_at]

(* queryDatabase with the expiry test (lines 174-181) ahead of the
   is_active test (lines 165-171). *)
queryDatabase_ExpiryFirst(t, rec, time) ==
  IF ~rec.found
    THEN [isValid |-> FALSE, userId |-> "null", error |-> "Token not found",
          expiresAt |-> NoExpiry]
  ELSE IF rec.expires_at # NoExpiry /\ rec.expires_at < time
    THEN [isValid |-> FALSE, userId |-> UserOf(t), error |-> "Token has expired",
          expiresAt |-> rec.expires_at]
  ELSE IF rec.is_active = "false"
    THEN [isValid |-> FALSE, userId |-> UserOf(t), error |-> "Token is inactive",
          expiresAt |-> NoExpiry]
  ELSE [isValid |-> TRUE, userId |-> UserOf(t), error |-> "",
        expiresAt |-> rec.expires_at]

(* queryDatabase, lines 153-190, from the row the SELECT returned and
   new Date(). *)
queryDatabase(t, rec, time) ==
  IF ~rec.found
    THEN [isValid |-> FALSE, userId |-> "null", error |-> "Token not found",
          expiresAt |-> NoExpiry]
  ELSE IF rec.is_active = "false"
    THEN [isValid |-> FALSE, userId |-> UserOf(t), error |-> "Token is inactive",
          expiresAt |-> NoExpiry]
  ELSE IF rec.expires_at # NoExpiry /\ rec.expires_at < time
    THEN [isValid |-> FALSE, userId |-> UserOf(t), error |-> "Token has expired",
          expiresAt |-> rec.expires_at]
  ELSE [isValid |-> TRUE, userId |-> UserOf(t), error |-> "",
        expiresAt |-> rec.expires_at]

(* --------------------------- the token cache ------------------------- *)
NoEntry == [present |-> FALSE, result |-> NoResult, cachedAt |-> 0]

Entry(result, time) == [present |-> TRUE, result |-> result, cachedAt |-> time]

(* The cache check without the expiry test of lines 85-90. *)
CacheCheck_NoExpiry(cached, time) ==
  IF ~cached.present THEN "miss"
  ELSE IF time - cached.cachedAt < CACHE_TTL THEN "hit"
  ELSE "stale"

(* The cache check with "expiresAt <= now" at line 86. *)
CacheCheck_ExpiryInclusive(cached, time) ==
  IF ~cached.present THEN "miss"
  ELSE IF time - cached.cachedAt < CACHE_TTL
    THEN IF cached.result.isValid /\ cached.result.expiresAt # NoExpiry
           THEN IF cached.result.expiresAt <= time THEN "expired" ELSE "hit"
           ELSE "hit"
  ELSE "stale"

(* The cache check with "cacheAge <= CACHE_TTL" at line 83. *)
CacheCheck_TtlInclusive(cached, time) ==
  IF ~cached.present THEN "miss"
  ELSE IF time - cached.cachedAt <= CACHE_TTL
    THEN IF cached.result.isValid /\ cached.result.expiresAt # NoExpiry
           THEN IF cached.result.expiresAt < time THEN "expired" ELSE "hit"
           ELSE "hit"
  ELSE "stale"

(* verifyToken, lines 76-102: "hit" returns cached.result; "expired" (line
   89) and "stale" (line 100) delete the entry and go on to the store;
   "miss" goes on to the store. *)
CacheCheck(cached, time) ==
  IF ~cached.present THEN "miss"
  ELSE IF time - cached.cachedAt < CACHE_TTL
    THEN IF cached.result.isValid /\ cached.result.expiresAt # NoExpiry
           THEN IF cached.result.expiresAt < time THEN "expired" ELSE "hit"
           ELSE "hit"
  ELSE "stale"

(* A cache write that also drops the entries of other keys whose age has
   reached TTL. *)
CacheStore_Sweep(cache, t, result, time) ==
  IF result.isValid
    THEN [u \in DOMAIN cache |->
            IF u = t THEN Entry(result, time)
            ELSE IF cache[u].present /\ time - cache[u].cachedAt >= CACHE_TTL
              THEN NoEntry ELSE cache[u]]
    ELSE cache

(* The cache write without the isValid test of line 109. *)
CacheStore_All(cache, t, result, time) ==
  [cache EXCEPT ![t] = Entry(result, time)]

(* verifyToken, lines 108-114: only valid results are stored. *)
CacheStore(cache, t, result, time) ==
  IF result.isValid THEN [cache EXCEPT ![t] = Entry(result, time)] ELSE cache

(* ------------------------------ Init --------------------------------- *)
NoAttempt == [st |-> "none", pool |-> NoPool]
NoResp == [status |-> 0, error |-> ""]

(* An Error object: its name (the constructor's), the fixed text of its
   message, and what the message goes on with. *)
NoError == [name |-> "", message |-> "", cause |-> "", missing |-> {}]

(* What query() rejected with inside a verifyToken call, and where it was
   thrown: in getPool ("acquire", line 102) or in poolInstance.query
   ("execute", line 103). *)
Thrown(stage, e) == [stage |-> stage, err |-> e]
NoThrow == Thrown("none", NoError)

NoRet == [inv |-> 0, token |-> AbsentToken, src |-> "none", why |-> "none",
          result |-> NoResult, nq |-> 0, resp |-> NoResp,
          stage |-> "none", err |-> NoError]

NoAnswer == [kind |-> "none", fields |-> {}]
NoCredRet == [inv |-> 0, ok |-> FALSE, err |-> NoError, answer |-> NoAnswer]

(* remainingQuota undefined *)
NoQuota == -1

(* No remote answer, no validation result, no validateApiKey call. *)
NoField == [type |-> "absent", text |-> <<>>]
NoBody == [kind |-> "none", valid |-> "absent", error |-> NoField,
           remainingQuota |-> NoQuota]
NoRemote == [kind |-> "none", status |-> 0, body |-> NoBody, code |-> "",
             message |-> <<>>]
NoAuth == [valid |-> FALSE, error |-> "", statusCode |-> 0, quotaExceeded |-> FALSE,
           remainingQuota |-> NoQuota]
NoJaasResp == [status |-> 0, error |-> "", remaining |-> NoQuota]
NoCall == [pc |-> "idle", key |-> AbsentToken, via |-> "none", nreq |-> 0,
           seen |-> FALSE]
NoJret == [inv |-> 0, key |-> AbsentToken, via |-> "none", bodyOk |-> TRUE,
           seen |-> FALSE, answer |-> NoRemote, result |-> NoAuth, nreq |-> 0,
           resp |-> NoJaasResp]

Init ==
  /\ now = 1
  /\ store \in [Tokens -> Records]
  /\ \A t \in Tokens \ Presented : store[t] = NoRow
  /\ tokenCache = [t \in Tokens |-> NoEntry]
  /\ pool = NoPool
  /\ isInitializing = FALSE
  /\ initPromise = NoPool
  /\ cachedCredentials = FALSE
  /\ secretName \in BOOLEAN
  /\ attempts = [a \in Attempts |-> NoAttempt]
  /\ nAttempts = 0
  /\ nPools = 0
  /\ nFetch = 0
  /\ pools = [p \in Attempts |-> "none"]
  /\ errored = {}
  /\ pc = [i \in Invocations |-> "idle"]
  /\ token = [i \in Invocations |-> AbsentToken]
  /\ att = [i \in Invocations |-> 0]
  /\ poolInstance = [i \in Invocations |-> NoPool]
  /\ nq = [i \in Invocations |-> 0]
  /\ why = [i \in Invocations |-> "none"]
  /\ lastOk = [t \in Tokens |-> NoEntry]
  /\ ret = [i \in Invocations |-> NoRet]
  /\ mode = "store"
  /\ credPc = [i \in Invocations |-> "idle"]
  /\ credRet = [i \in Invocations |-> NoCredRet]
  /\ baseUrl = "unset"
  /\ jaas = [i \in Invocations |-> NoCall]
  /\ jret = [i \in Invocations |-> NoJret]
  /\ served = {}

(* ------------------------------ handler ------------------------------ *)
Response(status, error) == [status |-> status, error |-> error]

(* The rest of the request body and what rendering does with it: one
   request for each way out of handler lines 98-204. *)
Requests ==
  { [code |-> FALSE, format |-> "svg", outcome |-> "ok"],
    [code |-> TRUE, format |-> "gif", outcome |-> "ok"],
    [code |-> TRUE, format |-> "svg", outcome |-> "highlight_error"],
    [code |-> TRUE, format |-> "png", outcome |-> "render_error"],
    [code |-> TRUE, format |-> "svg", outcome |-> "ok"] }

(* The handler answering 403 to an inactive credential. *)
HandlerResponse_ByReason(source, result, code, format, outcome) ==
  IF source = "thrown" THEN Response(503, "Service temporarily unavailable")
  ELSE IF ~result.isValid
    THEN Response(IF result.error = "Token is inactive" THEN 403 ELSE 401,
                  IF result.error # "" THEN result.error
                                       ELSE "Invalid or missing API token")
  ELSE IF ~code THEN Response(400, "Missing required field: code")
  ELSE IF format \notin {"svg", "png"} THEN Response(400, "Invalid format")
  ELSE IF outcome = "highlight_error" THEN Response(400, "Syntax highlighting failed")
  ELSE IF outcome = "render_error" THEN Response(500, "Internal server error")
  ELSE Response(200, "")

(* The handler after "await verifyToken(token)", lines 69-204.  source is
   "thrown" when the awaited promise rejected. *)
HandlerResponse(source, result, code, format, outcome) ==
  IF source = "thrown" THEN Response(503, "Service temporarily unavailable")
  ELSE IF ~result.isValid
    THEN Response(401, IF result.error # "" THEN result.error
                                           ELSE "Invalid or missing API token")
  ELSE IF ~code THEN Response(400, "Missing required field: code")
  ELSE IF format \notin {"svg", "png"} THEN Response(400, "Invalid format")
  ELSE IF outcome = "highlight_error" THEN Response(400, "Syntax highlighting failed")
  ELSE IF outcome = "render_error" THEN Response(500, "Internal server error")
  ELSE Response(200, "")

(* The invocations in S are over: their locals are gone. *)
Leave(S) ==
  /\ pc' = [i \in Invocations |-> IF i \in S THEN "idle" ELSE pc[i]]
  /\ token' = [i \in Invocations |-> IF i \in S THEN AbsentToken ELSE token[i]]
  /\ att' = [i \in Invocations |-> IF i \in S THEN 0 ELSE att[i]]
  /\ poolInstance' = [i \in Invocations |-> IF i \in S THEN NoPool ELSE poolInstance[i]]
  /\ nq' = [i \in Invocations |-> IF i \in S THEN 0 ELSE nq[i]]
  /\ why' = [i \in Invocations |-> IF i \in S THEN "none" ELSE why[i]]

(* What invocation i returns: verifyToken(tok) settled with result (from
   source, the cache check having found "found") after n query() calls, and
   the handler's continuation, lines 85-204, answered request r. *)
Returns(i, tok, source, found, result, n, r, e) ==
  [inv |-> i, token |-> tok, src |-> source, why |-> found, result |-> result,
   nq |-> n, resp |-> HandlerResponse(source, result, r.code, r.format, r.outcome),
   stage |-> e.stage, err |-> e.err]

(* Invocation i returns in this step, nobody else does. *)
Finish(i, tok, source, found, result, n, e) ==
  /\ Leave({i})
  /\ \E r \in Requests :
       ret' = [j \in Invocations |->
                 IF j = i THEN Returns(i, tok, source, found, result, n, r, e)
                          ELSE NoRet]

(* All invocations in S return in this step, their verifyToken settling with
   result from source. *)
FinishAll(S, source, result, e) ==
  /\ Leave(S)
  /\ \E rq \in [Invocations -> Requests] :
       ret' = [j \in Invocations |->
                 IF j \in S
                   THEN Returns(j, token[j], source, why[j], result, nq[j], rq[j], e)
                   ELSE NoRet]

NoneReturns == ret' = [i \in Invocations |-> NoRet]

(* Invocation i suspends at pos inside query() for token tok. *)
Suspend(i, tok, found, pos) ==
  /\ pc' = [pc EXCEPT ![i] = pos]
  /\ token' = [token EXCEPT ![i] = tok]
  /\ nq' = [nq EXCEPT ![i] = 1]
  /\ why' = [why EXCEPT ![i] = found]
  /\ NoneReturns

(* verifyToken's catch rethrowing instead of returning a result. *)
LookupFailure_Thrown == [src |-> "thrown", result |-> VerificationFailed]

(* verifyToken's catch, lines 117-125: the error is swallowed and a result
   object is returned ("error"); "thrown" would be the promise rejecting. *)
LookupFailure == [src |-> "error", result |-> VerificationFailed]

(* ------------------------------ errors ------------------------------- *)
SecretFields == {"host", "port", "database", "username", "password", "user"}

(* What client.send() comes back with: it rejects ("unreachable"), the
   secret string is not JSON ("unparsable"), or it is an object whose
   truthy fields are given. *)
SecretAnswers ==
  {[kind |-> "unreachable", fields |-> {}], [kind |-> "unparsable", fields |-> {}]}
    \cup [kind : {"payload"}, fields : SUBSET SecretFields]

(* line 378 *)
SecretNameUnset ==
  [name |-> "Error", message |-> "DB_SECRET_NAME environment variable is not set",
   cause |-> "", missing |-> {}]

(* lines 419-427: whatever was thrown inside the try is replaced by a new
   Error whose message is the fixed prefix followed by the cause's. *)
RetrieveFailed(cause, missing) ==
  [name |-> "Error", message |-> "Failed to retrieve database credentials: ",
   cause |-> cause, missing |-> missing]

(* line 400 *)
requiredFields == {"host", "port", "database", "username", "password"}

(* getDatabaseCredentials, lines 387-427, from the answer of client.send():
   the error the call rejects with, NoError when it resolves. *)
ParseSecret(answer) ==
  IF answer.kind = "unreachable" THEN RetrieveFailed("send rejected", {})
  ELSE IF answer.kind = "unparsable" THEN RetrieveFailed("JSON.parse threw", {})
  ELSE IF requiredFields \ answer.fields # {}
    THEN RetrieveFailed("Secret is missing required fields: ",
                        requiredFields \ answer.fields)
  ELSE NoError

Unreachable == [kind |-> "unreachable", fields |-> {}]

(* The failures of getDatabaseCredentials inside initializePool: the
   provider does not answer; the secret has host, port, database, user and
   password but no username. *)
FailedAnswers ==
  {Unreachable,
   [kind |-> "payload", fields |-> {"host", "port", "database", "user", "password"}]}

(* Errors of the pg library.  newPool.connect() (line 83) fails when the
   server cannot be reached; poolInstance.query() (line 103) checks a client
   out of the pool, which fails the same way, and runs the statement, which
   the server can reject. *)
ConnRefused ==
  [name |-> "Error", message |-> "connect ECONNREFUSED", cause |-> "", missing |-> {}]
StatementRejected ==
  [name |-> "DatabaseError", message |-> "relation \"api_tokens\" does not exist",
   cause |-> "", missing |-> {}]

ConnectErrors == {ConnRefused}
ExecuteErrors == {ConnRefused, StatementRejected}

(* ------------------------------ getPool ------------------------------ *)
(* initializePool with a getDatabaseCredentials that has no memo (lines
   373-375 left out): every attempt asks the secret provider. *)
initializePool_NoMemo(i, tok, found, a) ==
  IF ~secretName THEN
    /\ attempts' = [attempts EXCEPT ![a] = [st |-> "rejected", pool |-> NoPool]]
    /\ pool' = NoPool
    /\ isInitializing' = FALSE
    /\ initPromise' = NoPool
    /\ Finish(i, tok, LookupFailure.src, found, LookupFailure.result, 1,
              Thrown("acquire", SecretNameUnset))
    /\ UNCHANGED <<nPools, nFetch, pools>>
  ELSE
    /\ attempts' = [attempts EXCEPT ![a] = [st |-> "fetching", pool |-> NoPool]]
    /\ nFetch' = nFetch + 1
    /\ isInitializing' = TRUE
    /\ initPromise' = a
    /\ Suspend(i, tok, found, "gp_await")
    /\ att' = [att EXCEPT ![i] = a]
    /\ UNCHANGED <<pool, nPools, pools, poolInstance>>

(* initializePool() up to its first suspension, lines 46-83, with
   getDatabaseCredentials lines 371-388 when the credentials are not
   memoized.  With memoized credentials the await at line 54 resumes in the
   next microtask, so new Pool() and connect() belong to this step.  When
   DB_SECRET_NAME is unset the promise is born rejected (lines 49-51, 88-92)
   and the microtasks behind the call (getPool's finally, the rethrows up to
   verifyToken's catch, the handler's continuation) run before anything else
   can. *)
initializePool(i, tok, found, a) ==
  IF ~secretName THEN
    /\ attempts' = [attempts EXCEPT ![a] = [st |-> "rejected", pool |-> NoPool]]
    /\ pool' = NoPool
    /\ isInitializing' = FALSE
    /\ initPromise' = NoPool
    /\ Finish(i, tok, LookupFailure.src, found, LookupFailure.result, 1,
              Thrown("acquire", SecretNameUnset))
    /\ UNCHANGED <<nPools, nFetch, pools>>
  ELSE IF cachedCredentials THEN
    /\ attempts' = [attempts EXCEPT ![a] = [st |-> "connecting", pool |-> nPools + 1]]
    /\ nPools' = nPools + 1
    /\ pools' = [pools EXCEPT ![nPools + 1] = "connecting"]
    /\ isInitializing' = TRUE
    /\ initPromise' = a
    /\ Suspend(i, tok, found, "gp_await")
    /\ att' = [att EXCEPT ![i] = a]
    /\ UNCHANGED <<pool, nFetch, poolInstance>>
  ELSE
    /\ attempts' = [attempts EXCEPT ![a] = [st |-> "fetching", pool |-> NoPool]]
    /\ nFetch' = nFetch + 1
    /\ isInitializing' = TRUE
    /\ initPromise' = a
    /\ Suspend(i, tok, found, "gp_await")
    /\ att' = [att EXCEPT ![i] = a]
    /\ UNCHANGED <<pool, nPools, pools, poolInstance>>

(* getPool without the test of line 25. *)
InFlight_Never == FALSE

(* getPool, line 25: an initialization is in flight, join it. *)
InFlight ==isInitializing /\ initPromise # NoPool

(* getPool without the test of line 20: a singleton that is set is not
   returned. *)
getPool_NoSingletonCheck(i, tok, found) ==
  IF InFlight THEN
    /\ Suspend(i, tok, found, "q_waitinit")
    /\ att' = [att EXCEPT ![i] = initPromise]
    /\ UNCHANGED <<poolInstance, poolVars>>
  ELSE
    /\ nAttempts < MaxAttempts
    /\ nAttempts' = nAttempts + 1
    /\ UNCHANGED cachedCredentials
    /\ initializePool(i, tok, found, nAttempts + 1)

(* getPool() up to its first await, called by invocation i (through
   query).  Sets the module variables, att, poolInstance and pc[i]:
     "q_wait"     the singleton exists and is returned (lines 20-22); query
                  line 103 runs in the next microtask
     "q_waitinit" an initialization is in flight; i gets its promise (25-27)
     "gp_await"   i started initializePool() and awaits it   (lines 30-34) *)
getPool(i, tok, found) ==
  IF pool # NoPool THEN
    /\ Suspend(i, tok, found, "q_wait")
    /\ poolInstance' = [poolInstance EXCEPT ![i] = pool]
    /\ UNCHANGED <<att, poolVars>>
  ELSE IF InFlight THEN
    /\ Suspend(i, tok, found, "q_waitinit")
    /\ att' = [att EXCEPT ![i] = initPromise]
    /\ UNCHANGED <<poolInstance, poolVars>>
  ELSE
    /\ nAttempts < MaxAttempts
    /\ nAttempts' = nAttempts + 1
    /\ UNCHANGED cachedCredentials
    /\ initializePool(i, tok, found, nAttempts + 1)

(* exports.handler up to its first suspension, lines 23-69, with
   verifyToken lines 67-106, queryDatabase line 141 and query line 102. *)
HandlerCall(i, tok) ==
  /\ pc[i] = "idle"
  /\ IF ~IsTruthy(tok) THEN
       \* handler lines 55-64: verifyToken is not called
       /\ ret' = [j \in Invocations |->
                    IF j = i
                      THEN [inv |-> i, token |-> tok, src |-> "none", why |-> "none",
                            result |-> NoResult, nq |-> 0,
                            resp |-> Response(401, "Missing API token"),
                            stage |-> "none", err |-> NoError]
                      ELSE NoRet]
       /\ UNCHANGED <<tokenCache, lastOk, poolVars, localVars>>
     ELSE IF ~IsString(tok) THEN
       \* verifyToken lines 68-74
       /\ Finish(i, tok, "invalid", "none", TokenRequired, 0, NoThrow)
       /\ UNCHANGED <<tokenCache, lastOk, poolVars>>
     ELSE IF CacheCheck(tokenCache[tok], now) = "hit" THEN
       \* verifyToken lines 92 and 96
       /\ Finish(i, tok, "cache", "hit", tokenCache[tok].result, 0, NoThrow)
       /\ UNCHANGED <<tokenCache, lastOk, poolVars>>
     ELSE
       \* verifyToken lines 89, 100, then queryDatabase -> query -> getPool
       /\ tokenCache' = [tokenCache EXCEPT ![tok] = NoEntry]
       /\ lastOk' = IF CacheCheck(tokenCache[tok], now) = "miss"
                      THEN lastOk ELSE [lastOk EXCEPT ![tok] = NoEntry]
       /\ getPool(i, tok, CacheCheck(tokenCache[tok], now))
  /\ UNCHANGED sideVars
  /\ UNCHANGED <<now, store, secretName, errored>>

(* The callers awaiting attempt a: the one whose getPool started it (line 34)
   and those that were handed initPromise (line 26). *)
Joined(a) == {i \in Invocations : pc[i] \in {"gp_await", "q_waitinit"} /\ att[i] = a}

(* A rejection that leaves isInitializing and initPromise as they are. *)
InitRejected_KeepsGuard(a, e) ==
  /\ attempts' = [attempts EXCEPT ![a].st = "rejected"]
  /\ pool' = NoPool
  /\ UNCHANGED <<isInitializing, initPromise>>
  /\ FinishAll(Joined(a), LookupFailure.src, LookupFailure.result,
               Thrown("acquire", e))

(* The attempt's promise rejects (initializePool's catch, lines 88-92) and
   its reactions run: the starter's "pool = await initPromise" at line 34,
   whose finally clears the guard (lines 36-39), and the promises returned at
   line 26.  For each caller the error travels through query and
   queryDatabase (lines 191-194) into verifyToken's catch. *)
InitRejected(a, e) ==
  /\ attempts' = [attempts EXCEPT ![a].st = "rejected"]
  /\ pool' = NoPool
  /\ isInitializing' = FALSE
  /\ initPromise' = NoPool
  /\ FinishAll(Joined(a), LookupFailure.src, LookupFailure.result,
               Thrown("acquire", e))

(* client.send() answers, getDatabaseCredentials lines 388-427; on success
   initializePool goes on to new Pool() and connect(), lines 56-83. *)
SecretFetchDone(a, ok) ==
  /\ attempts[a].st = "fetching"
  /\ IF ok THEN
       /\ cachedCredentials' = TRUE
       /\ attempts' = [attempts EXCEPT ![a] = [st |-> "connecting", pool |-> nPools + 1]]
       /\ nPools' = nPools + 1
       /\ pools' = [pools EXCEPT ![nPools + 1] = "connecting"]
       /\ NoneReturns
       /\ UNCHANGED <<pool, isInitializing, initPromise, localVars>>
     ELSE
       /\ \E answer \in FailedAnswers : InitRejected(a, ParseSecret(answer))
       /\ UNCHANGED <<cachedCredentials, nPools, pools>>
  /\ UNCHANGED sideVars
  /\ UNCHANGED <<now, store, tokenCache, secretName, nAttempts, nFetch, errored,
                 lastOk>>

(* The attempt's promise resolves (initializePool lines 84-87) and its
   reactions run: getPool lines 34-39 for the starter, the promises returned
   at line 26 for the others; each caller goes on to query line 103. *)
InitResolved(a) ==
  /\ attempts' = [attempts EXCEPT ![a].st = "resolved"]
  /\ pools' = [pools EXCEPT ![attempts[a].pool] = "live"]
  /\ pool' = attempts[a].pool
  /\ isInitializing' = FALSE
  /\ initPromise' = NoPool
  /\ pc' = [i \in Invocations |-> IF i \in Joined(a) THEN "q_wait" ELSE pc[i]]
  /\ poolInstance' = [i \in Invocations |->
                        IF i \in Joined(a) THEN attempts[a].pool ELSE poolInstance[i]]
  /\ NoneReturns
  /\ UNCHANGED <<token, att, nq, why>>

(* newPool.connect() answers, initializePool line 83. *)
ConnectDone(a, ok) ==
  /\ attempts[a].st = "connecting"
  /\ IF ok THEN InitResolved(a)
     ELSE
       /\ \E e \in ConnectErrors : InitRejected(a, e)
       /\ pools' = [pools EXCEPT ![attempts[a].pool] = "failed"]
  /\ UNCHANGED sideVars
  /\ UNCHANGED <<now, store, tokenCache, cachedCredentials, secretName, nAttempts,
                 nPools, nFetch, errored, lastOk>>

(* A verifyToken that looks at the cache again when its query is answered
   and returns the entry another call has written meanwhile. *)
QueryDone_PreferCached(i, ok) ==
  /\ pc[i] = "q_wait"
  /\ IF ok THEN
       LET result == IF tokenCache[token[i]].present
                       THEN tokenCache[token[i]].result
                       ELSE queryDatabase(token[i], store[token[i]], now) IN
       /\ Finish(i, token[i], "store", why[i], result, nq[i], NoThrow)
       /\ tokenCache' = IF tokenCache[token[i]].present THEN tokenCache
                        ELSE CacheStore(tokenCache, token[i], result, now)
       /\ lastOk' = IF tokenCache[token[i]].present THEN lastOk
                    ELSE IF result.isValid
                      THEN [lastOk EXCEPT ![token[i]] = Entry(result, now)]
                      ELSE lastOk
     ELSE
       /\ \E e \in ExecuteErrors :
            Finish(i, token[i], LookupFailure.src, why[i], LookupFailure.result,
                   nq[i], Thrown("execute", e))
       /\ UNCHANGED <<tokenCache, lastOk>>
  /\ UNCHANGED sideVars
  /\ UNCHANGED <<now, store, poolVars, secretName, errored>>

(* A verifyToken that issues the query once more when the first one
   fails. *)
QueryDone_Retry(i, ok) ==
  /\ pc[i] = "q_wait"
  /\ IF ok THEN
       LET result == queryDatabase(token[i], store[token[i]], now) IN
       /\ Finish(i, token[i], "store", why[i], result, nq[i], NoThrow)
       /\ tokenCache' = CacheStore(tokenCache, token[i], result, now)
       /\ lastOk' = IF result.isValid
                      THEN [lastOk EXCEPT ![token[i]] = Entry(result, now)]
                      ELSE lastOk
     ELSE IF nq[i] < 2 THEN
       /\ nq' = [nq EXCEPT ![i] = nq[i] + 1]
       /\ NoneReturns
       /\ UNCHANGED <<pc, token, att, poolInstance, why, tokenCache, lastOk>>
     ELSE
       /\ \E e \in ExecuteErrors :
            Finish(i, token[i], LookupFailure.src, why[i], LookupFailure.result,
                   nq[i], Thrown("execute", e))
       /\ UNCHANGED <<tokenCache, lastOk>>
  /\ UNCHANGED sideVars
  /\ UNCHANGED <<now, store, poolVars, secretName, errored>>

(* poolInstance.query() answers: queryDatabase lines 153-194, then
   verifyToken lines 106-125 and the handler's continuation. *)
QueryDone(i, ok) ==
  /\ pc[i] = "q_wait"
  /\ IF ok THEN
       LET result == queryDatabase(token[i], store[token[i]], now) IN
       /\ Finish(i, token[i], "store", why[i], result, nq[i], NoThrow)
       /\ tokenCache' = CacheStore(tokenCache, token[i], result, now)
       /\ lastOk' = IF result.isValid
                      THEN [lastOk EXCEPT ![token[i]] = Entry(result, now)]
                      ELSE lastOk
     ELSE
       /\ \E e \in ExecuteErrors :
            Finish(i, token[i], LookupFailure.src, why[i], LookupFailure.result,
                   nq[i], Thrown("execute", e))
       /\ UNCHANGED <<tokenCache, lastOk>>
  /\ UNCHANGED sideVars
  /\ UNCHANGED <<now, store, poolVars, secretName, errored>>

(* An 'error' listener that only logs. *)
PoolError_NoReset(p) ==
  /\ pools[p] = "live"
  /\ pool' = pool
  /\ errored' = IF pool = p THEN errored \cup {p} ELSE errored
  /\ NoneReturns
  /\ UNCHANGED sideVars
  /\ UNCHANGED <<now, store, tokenCache, isInitializing, initPromise,
                 cachedCredentials, secretName, attempts, nAttempts, nPools, nFetch,
                 pools, localVars, lastOk>>

(* The 'error' listener of a pool, initializePool lines 76-80: whichever
   pool emits, the module variable is reset. *)
PoolError(p) ==
  /\ pools[p] = "live"
  /\ pool' = NoPool
  /\ errored' = IF pool = p THEN errored \cup {p} ELSE errored
  /\ NoneReturns
  /\ UNCHANGED sideVars
  /\ UNCHANGED <<now, store, tokenCache, isInitializing, initPromise,
                 cachedCredentials, secretName, attempts, nAttempts, nPools, nFetch,
                 pools, localVars, lastOk>>

(* clearCache, lines 200-202. *)
clearCache ==
  /\ tokenCache' = [t \in Tokens |-> NoEntry]
  /\ NoneReturns
  /\ UNCHANGED sideVars
  /\ UNCHANGED <<now, store, poolVars, secretName, errored, localVars, lastOk>>

(* The environment: the api_tokens table is written by others, time passes. *)
StoreWrite(t, rec) ==
  /\ rec # store[t]
  /\ store' = [store EXCEPT ![t] = rec]
  /\ NoneReturns
  /\ UNCHANGED sideVars
  /\ UNCHANGED <<now, tokenCache, poolVars, secretName, errored, localVars, lastOk>>

Tick ==
  /\ now < MaxTime
  /\ now' = now + 1
  /\ NoneReturns
  /\ UNCHANGED sideVars
  /\ UNCHANGED <<store, tokenCache, poolVars, secretName, errored, localVars, lastOk>>

Next ==
  \/ \E i \in Invocations, tok \in TokenInputs : HandlerCall(i, tok)
  \/ \E a \in Attempts, ok \in BOOLEAN : SecretFetchDone(a, ok)
  \/ \E a \in Attempts, ok \in BOOLEAN : ConnectDone(a, ok)
  \/ \E i \in Invocations, ok \in BOOLEAN : QueryDone(i, ok)
  \/ \E p \in Attempts : PoolError(p)
  \/ clearCache
  \/ \E t \in Presented, rec \in Records : StoreWrite(t, rec)
  \/ Tick

Spec == Init /\ [][Next]_vars

(* What the code's timers guarantee: connect() is bounded by
   connectionTimeoutMillis (part_000 lines 58 and 71), so an initialization
   that reached connect() settles.  Nothing bounds client.send() (line 387)
   or poolInstance.query() (line 103): the Pool is given no query or
   statement timeout. *)
SpecLive ==
  Init /\ [][Next]_vars
    /\ WF_vars(\E a \in Attempts, ok \in BOOLEAN : ConnectDone(a, ok))

(* ------------------- the modules' other entry points ------------------ *)
(* verifyToken and closePool are exported; a caller other than the handler
   (a test, a maintenance script) can call them with any argument, at any
   time. *)
BadInputs == {AbsentToken, NonStringToken}

(* verifyToken without the test of line 68: the argument goes on to the
   cache (no entry under such a key) and to queryDatabase. *)
verifyToken_NoInputCheck(i, tok) ==
  /\ pc[i] = "idle"
  /\ tok \in BadInputs
  /\ getPool(i, tok, "miss")
  /\ UNCHANGED sideVars
  /\ UNCHANGED <<now, store, tokenCache, lastOk, secretName, errored>>

(* verifyToken(tok), lines 67-74, for an argument that is undefined, '' or
   not a string: the caller gets the result, there is no handler. *)
verifyTokenBadInput(i, tok) ==
  /\ pc[i] = "idle"
  /\ tok \in BadInputs
  /\ ret' = [j \in Invocations |->
               IF j = i
                 THEN [inv |-> i, token |-> tok, src |-> "invalid", why |-> "none",
                       result |-> TokenRequired, nq |-> 0, resp |-> NoResp,
                       stage |-> "none", err |-> NoError]
                 ELSE NoRet]
  /\ UNCHANGED sideVars
  /\ UNCHANGED <<now, store, tokenCache, lastOk, secretName, errored, poolVars,
                 localVars>>

(* closePool, lines 110-112: with a singleton set, end() is called on it
   and closePool suspends. *)
closePool ==
  /\ pool # NoPool
  /\ pools[pool] = "live"
  /\ pools' = [pools EXCEPT ![pool] = "ending"]
  /\ NoneReturns
  /\ UNCHANGED sideVars
  /\ UNCHANGED <<now, store, tokenCache, lastOk, secretName, errored, pool,
                 isInitializing, initPromise, cachedCredentials, attempts,
                 nAttempts, nPools, nFetch, localVars>>

(* closePool, line 113: end() of pool p has resolved, the module variable is
   set to null. *)
closePoolDone(p) ==
  /\ pools[p] = "ending"
  /\ pools' = [pools EXCEPT ![p] = "ended"]
  /\ pool' = NoPool
  /\ NoneReturns
  /\ UNCHANGED sideVars
  /\ UNCHANGED <<now, store, tokenCache, lastOk, secretName, errored,
                 isInitializing, initPromise, cachedCredentials, attempts,
                 nAttempts, nPools, nFetch, localVars>>

NextApi ==
  \/ Next
  \/ \E i \in Invocations, tok \in BadInputs : verifyTokenBadInput(i, tok)
  \/ closePool
  \/ \E p \in Attempts : closePoolDone(p)

SpecApi == Init /\ [][NextApi]_vars

(* ---------------------- callers with different keys -------------------- *)
(* The handler called with either of two credentials the table holds as
   active rows, against a store that answers: what the Map of lines 48 and
   76-114 does to the entries of two keys. *)
ActiveRow == [found |-> TRUE, is_active |-> "true", expires_at |-> NoExpiry]

InitKeys ==
  /\ now = 1
  /\ store = [t \in Tokens |-> ActiveRow]
  /\ tokenCache = [t \in Tokens |-> NoEntry]
  /\ pool = NoPool
  /\ isInitializing = FALSE
  /\ initPromise = NoPool
  /\ cachedCredentials = FALSE
  /\ secretName = TRUE
  /\ attempts = [a \in Attempts |-> NoAttempt]
  /\ nAttempts = 0
  /\ nPools = 0
  /\ nFetch = 0
  /\ pools = [p \in Attempts |-> "none"]
  /\ errored = {}
  /\ pc = [i \in Invocations |-> "idle"]
  /\ token = [i \in Invocations |-> AbsentToken]
  /\ att = [i \in Invocations |-> 0]
  /\ poolInstance = [i \in Invocations |-> NoPool]
  /\ nq = [i \in Invocations |-> 0]
  /\ why = [i \in Invocations |-> "none"]
  /\ lastOk = [t \in Tokens |-> NoEntry]
  /\ ret = [i \in Invocations |-> NoRet]
  /\ mode = "store"
  /\ credPc = [i \in Invocations |-> "idle"]
  /\ credRet = [i \in Invocations |-> NoCredRet]
  /\ baseUrl = "unset"
  /\ jaas = [i \in Invocations |-> NoCall]
  /\ jret = [i \in Invocations |-> NoJret]
  /\ served = {}

NextKeys ==
  \/ \E i \in Invocations, tok \in Tokens : HandlerCall(i, tok)
  \/ \E a \in Attempts, ok \in BOOLEAN : SecretFetchDone(a, ok)
  \/ \E a \in Attempts, ok \in BOOLEAN : ConnectDone(a, ok)
  \/ \E i \in Invocations, ok \in BOOLEAN : QueryDone(i, ok)
  \/ clearCache
  \/ Tick

SpecKeys == InitKeys /\ [][NextKeys]_vars

(* ------------------------ an unchanging table ------------------------- *)
(* The handler's callers while nobody writes api_tokens and nobody calls
   clearCache: the record of each credential stays what it was at the
   start. *)
NextRace ==
  \/ \E i \in Invocations, tok \in TokenInputs : HandlerCall(i, tok)
  \/ \E a \in Attempts, ok \in BOOLEAN : SecretFetchDone(a, ok)
  \/ \E a \in Attempts, ok \in BOOLEAN : ConnectDone(a, ok)
  \/ \E i \in Invocations, ok \in BOOLEAN : QueryDone(i, ok)
  \/ \E p \in Attempts : PoolError(p)
  \/ Tick

SpecRace == Init /\ [][NextRace]_vars

(* --------------------- a table with nullable columns ------------------ *)
(* The handler's callers against a table in which is_active can also be
   NULL: nothing in the SELECT of lines 141-151 excludes such a row. *)
NextRows ==
  \/ Next
  \/ \E t \in Presented, rec \in NullRows : StoreWrite(t, rec)

SpecRows == Init /\ [][NextRows]_vars

(* ------------------------- utils/secretsManager ----------------------- *)
(* getDatabaseCredentials is exported: it can be called with any argument,
   and the secret it reads is whatever the provider holds. *)
CredSettles(i, e, answer) ==
  credRet' = [j \in Invocations |->
                IF j = i THEN [inv |-> i, ok |-> (e = NoError), err |-> e,
                               answer |-> answer]
                         ELSE NoCredRet]

(* getDatabaseCredentials(secretName) up to its await, lines 371-387. *)
getDatabaseCredentialsCall(i, name) ==
  /\ credPc[i] = "idle"
  /\ IF cachedCredentials THEN
       /\ CredSettles(i, NoError, NoAnswer)
       /\ UNCHANGED <<credPc, nFetch>>
     ELSE IF ~name THEN
       /\ CredSettles(i, SecretNameUnset, NoAnswer)
       /\ UNCHANGED <<credPc, nFetch>>
     ELSE
       /\ nFetch < MaxFetch
       /\ nFetch' = nFetch + 1
       /\ credPc' = [credPc EXCEPT ![i] = "sending"]
       /\ credRet' = [j \in Invocations |-> NoCredRet]
  /\ UNCHANGED <<now, store, tokenCache, pool, isInitializing, initPromise,
                 cachedCredentials, secretName, attempts, nAttempts, nPools, pools,
                 errored, localVars, lastOk, ret, mode, jaasVars>>

(* client.send() answers a direct caller, lines 388-427. *)
getDatabaseCredentialsDone(i, answer) ==
  /\ credPc[i] = "sending"
  /\ credPc' = [credPc EXCEPT ![i] = "idle"]
  /\ CredSettles(i, ParseSecret(answer), answer)
  /\ cachedCredentials' = (cachedCredentials \/ ParseSecret(answer) = NoError)
  /\ UNCHANGED <<now, store, tokenCache, pool, isInitializing, initPromise,
                 secretName, attempts, nAttempts, nPools, nFetch, pools, errored,
                 localVars, lastOk, ret, mode, jaasVars>>

NextSecrets ==
  \/ \E i \in Invocations, name \in BOOLEAN : getDatabaseCredentialsCall(i, name)
  \/ \E i \in Invocations, answer \in SecretAnswers :
       getDatabaseCredentialsDone(i, answer)

SpecSecrets == Init /\ [][NextSecrets]_vars

(* --------------------------- auth/jaasClient -------------------------- *)
(* Strings the code looks into are sequences of characters. *)
Upper == <<"A", "B", "C", "D", "E", "F", "G", "H", "I", "J", "K", "L", "M",
           "N", "O", "P", "Q", "R", "S", "T", "U", "V", "W", "X", "Y", "Z">>
Lower == <<"a", "b", "c", "d", "e", "f", "g", "h", "i", "j", "k", "l", "m",
           "n", "o", "p", "q", "r", "s", "t", "u", "v", "w", "x", "y", "z">>

(* String.prototype.includes *)
Includes(str, sub) ==
  \E k \in 1..(Len(str) - Len(sub) + 1) : SubSeq(str, k, k + Len(sub) - 1) = sub

(* A toLowerCase that leaves the string as it is. *)
toLowerCase_Identity(str) == str

(* String.prototype.toLowerCase *)
toLowerCase(str) ==
  [k \in 1..Len(str) |->
     IF \E u \in 1..26 : Upper[u] = str[k]
       THEN Lower[CHOOSE u \in 1..26 : Upper[u] = str[k]]
       ELSE str[k]]

quota == <<"q", "u", "o", "t", "a">>
timeout == <<"t", "i", "m", "e", "o", "u", "t">>

(* error messages of the remote service *)
MsgQuotaExceeded ==
  <<"Q", "u", "o", "t", "a", " ", "e", "x", "c", "e", "e", "d", "e", "d">>
MsgQuotaUpper ==
  <<"M", "O", "N", "T", "H", "L", "Y", " ", "Q", "U", "O", "T", "A">>
MsgQuote == <<"b", "a", "d", " ", "q", "u", "o", "t", "e">>
MsgNoKey ==
  <<"k", "e", "y", " ", "d", "o", "e", "s", " ", "n", "o", "t", " ",
    "e", "x", "i", "s", "t">>
MsgRevoked == <<"k", "e", "y", " ", "r", "e", "v", "o", "k", "e", "d">>
(* line 116: the default when the body has no error *)
MsgInvalidKey ==
  <<"I", "n", "v", "a", "l", "i", "d", " ", "A", "P", "I", " ", "k", "e", "y">>

(* messages of request errors *)
MsgRequestTimeout ==
  <<"R", "e", "q", "u", "e", "s", "t", " ", "t", "i", "m", "e", "o", "u", "t">>
MsgTimedOut ==
  <<"c", "o", "n", "n", "e", "c", "t", " ", "E", "T", "I", "M", "E", "D", "O", "U", "T">>
MsgHangUp ==
  <<"s", "o", "c", "k", "e", "t", " ", "h", "a", "n", "g", " ", "u", "p">>

(* The error member of the response body: absent (or falsy), a string, or
   a truthy value that is not a string. *)
ErrorFields ==
  {NoField, [type |-> "number", text |-> <<>>]}
    \cup [type : {"string"},
          text : {MsgQuotaExceeded, MsgQuotaUpper, MsgQuote, MsgNoKey, MsgRevoked}]

(* The valid member: true, false, absent, or the string 'true'. *)
ValidFields == {"true", "false", "absent", "string"}

(* Response bodies: empty, not JSON, JSON null, a JSON number, string or
   boolean (whose members all read as undefined), or an object. *)
Bodies ==
  [kind : {"empty", "unparsable", "null", "primitive"}, valid : {"absent"},
   error : {NoField}, remainingQuota : {NoQuota}]
    \cup [kind : {"object"}, valid : ValidFields, error : ErrorFields,
          remainingQuota : {NoQuota, 5}]

Statuses == {200, 401, 429, 500}

(* What makeRequest settles with, lines 188-257: it resolves with the
   response, or rejects with the request's error or with the timeout's
   (lines 244-248). *)
RemoteAnswers ==
  [kind : {"response"}, status : Statuses, body : Bodies, code : {""},
   message : {<<>>}]
    \cup {[kind |-> "error", status |-> 0, body |-> NoBody, code |-> c[1],
           message |-> c[2]] :
            c \in {<<"", MsgRequestTimeout>>, <<"ECONNABORTED", MsgHangUp>>,
                   <<"ECONNREFUSED", MsgHangUp>>, <<"ENOTFOUND", MsgHangUp>>,
                   <<"ETIMEDOUT", MsgTimedOut>>, <<"ECONNRESET", MsgHangUp>>}}

AuthResult(valid, error, statusCode, quotaExceeded, remainingQuota) ==
  [valid |-> valid, error |-> error, statusCode |-> statusCode,
   quotaExceeded |-> quotaExceeded, remainingQuota |-> remainingQuota]

(* The promise validateApiKey returns is rejected: no result. *)
Rejected == AuthResult(FALSE, "<rejected>", 0, FALSE, NoQuota)

(* A catch that rethrows the errors it does not recognise. *)
RequestFailed_Rethrow(code, message) ==
  IF code = "ECONNABORTED" \/ Includes(message, timeout)
    THEN AuthResult(FALSE, "Authentication service timeout. Please try again later.",
                    503, FALSE, NoQuota)
  ELSE IF code \in {"ECONNREFUSED", "ENOTFOUND"}
    THEN AuthResult(FALSE, "Authentication service unavailable", 503, FALSE, NoQuota)
  ELSE Rejected

(* The catch answering a timeout with 504. *)
RequestFailed_GatewayTimeout(code, message) ==
  IF code = "ECONNABORTED" \/ Includes(message, timeout)
    THEN AuthResult(FALSE, "Authentication service timeout. Please try again later.",
                    504, FALSE, NoQuota)
  ELSE IF code \in {"ECONNREFUSED", "ENOTFOUND"}
    THEN AuthResult(FALSE, "Authentication service unavailable", 503, FALSE, NoQuota)
  ELSE AuthResult(FALSE, "Authentication service error", 503, FALSE, NoQuota)

(* lines 150-177: the catch around the request and the handling of the
   response; a TypeError thrown while the response is handled lands here
   too. *)
RequestFailed(code, message) ==
  IF code = "ECONNABORTED" \/ Includes(message, timeout)
    THEN AuthResult(FALSE, "Authentication service timeout. Please try again later.",
                    503, FALSE, NoQuota)
  ELSE IF code \in {"ECONNREFUSED", "ENOTFOUND"}
    THEN AuthResult(FALSE, "Authentication service unavailable", 503, FALSE, NoQuota)
  ELSE AuthResult(FALSE, "Authentication service error", 503, FALSE, NoQuota)

MsgTypeError == <<"T", "y", "p", "e", "E", "r", "r", "o", "r">>

(* The 401 result carrying the remote service's message. *)
InvalidKey_Echo(errorMessage) ==
  AuthResult(FALSE,
             IF errorMessage = MsgRevoked THEN "key revoked"
             ELSE IF errorMessage = MsgNoKey THEN "key does not exist"
             ELSE "Invalid API key",
             401, FALSE, NoQuota)

(* lines 128-133 *)
InvalidKey(errorMessage) == AuthResult(FALSE, "Invalid API key", 401, FALSE, NoQuota)

(* validateApiKey without the branch of lines 134-140. *)
JaasAnswer_No429(answer) ==
  IF answer.kind = "error" THEN RequestFailed(answer.code, answer.message)
  ELSE IF answer.body.kind = "empty"
    THEN AuthResult(FALSE, "Authentication service returned empty response", 503,
                    FALSE, NoQuota)
  ELSE IF answer.body.kind = "unparsable"
    THEN AuthResult(FALSE, "Invalid response from authentication service", 503,
                    FALSE, NoQuota)
  ELSE IF answer.body.kind = "null" /\ answer.status \in {200, 401}
    THEN RequestFailed("", MsgTypeError)
  ELSE IF answer.status = 200 /\ answer.body.valid = "true"
    THEN AuthResult(TRUE, "", 0, FALSE, answer.body.remainingQuota)
  ELSE IF answer.status = 401
    THEN IF answer.body.error.type = "number" THEN RequestFailed("", MsgTypeError)
         ELSE LET errorMessage == IF answer.body.error.type = "absent"
                                    THEN MsgInvalidKey ELSE answer.body.error.text
              IN IF Includes(toLowerCase(errorMessage), quota)
                   THEN AuthResult(FALSE,
                          "Monthly quota exceeded. Please upgrade your plan or wait for quota reset.",
                          429, TRUE, NoQuota)
                   ELSE InvalidKey(errorMessage)
  ELSE AuthResult(FALSE, "Authentication service temporarily unavailable", 503,
                  FALSE, NoQuota)

(* validateApiKey with "responseData.valid" tested for truthiness. *)
JaasAnswer_Truthy(answer) ==
  IF answer.kind = "error" THEN RequestFailed(answer.code, answer.message)
  ELSE IF answer.body.kind = "empty"
    THEN AuthResult(FALSE, "Authentication service returned empty response", 503,
                    FALSE, NoQuota)
  ELSE IF answer.body.kind = "unparsable"
    THEN AuthResult(FALSE, "Invalid response from authentication service", 503,
                    FALSE, NoQuota)
  ELSE IF answer.body.kind = "null" /\ answer.status \in {200, 401}
    THEN RequestFailed("", MsgTypeError)
  ELSE IF answer.status = 200 /\ answer.body.valid \in {"true", "string"}
    THEN AuthResult(TRUE, "", 0, FALSE, answer.body.remainingQuota)
  ELSE IF answer.status = 401
    THEN IF answer.body.error.type = "number" THEN RequestFailed("", MsgTypeError)
         ELSE LET errorMessage == IF answer.body.error.type = "absent"
                                    THEN MsgInvalidKey ELSE answer.body.error.text
              IN IF Includes(toLowerCase(errorMessage), quota)
                   THEN AuthResult(FALSE,
                          "Monthly quota exceeded. Please upgrade your plan or wait for quota reset.",
                          429, TRUE, NoQuota)
                   ELSE InvalidKey(errorMessage)
  ELSE IF answer.status = 429
    THEN AuthResult(FALSE, "Rate limit exceeded. Please try again later.", 429,
                    FALSE, NoQuota)
  ELSE AuthResult(FALSE, "Authentication service temporarily unavailable", 503,
                  FALSE, NoQuota)

(* validateApiKey from what makeRequest settled with, lines 74-177.
   "responseData.valid" of a null body (line 106, evaluated only when the
   status is 200), "responseData.error" of a null body (line 116) and
   "errorMessage.toLowerCase" of an error that is not a string (line 119)
   throw a TypeError, which the catch of line 150 turns into a result. *)
JaasAnswer(answer) ==
  IF answer.kind = "error" THEN RequestFailed(answer.code, answer.message)
  ELSE IF answer.body.kind = "empty"
    THEN AuthResult(FALSE, "Authentication service returned empty response", 503,
                    FALSE, NoQuota)
  ELSE IF answer.body.kind = "unparsable"
    THEN AuthResult(FALSE, "Invalid response from authentication service", 503,
                    FALSE, NoQuota)
  ELSE IF answer.body.kind = "null" /\ answer.status \in {200, 401}
    THEN RequestFailed("", MsgTypeError)
  ELSE IF answer.status = 200 /\ answer.body.valid = "true"
    THEN AuthResult(TRUE, "", 0, FALSE, answer.body.remainingQuota)
  ELSE IF answer.status = 401
    THEN IF answer.body.error.type = "number" THEN RequestFailed("", MsgTypeError)
         ELSE LET errorMessage == IF answer.body.error.type = "absent"
                                    THEN MsgInvalidKey ELSE answer.body.error.text
              IN IF Includes(toLowerCase(errorMessage), quota)
                   THEN AuthResult(FALSE,
                          "Monthly quota exceeded. Please upgrade your plan or wait for quota reset.",
                          429, TRUE, NoQuota)
                   ELSE InvalidKey(errorMessage)
  ELSE IF answer.status = 429
    THEN AuthResult(FALSE, "Rate limit exceeded. Please try again later.", 429,
                    FALSE, NoQuota)
  ELSE AuthResult(FALSE, "Authentication service temporarily unavailable", 503,
                  FALSE, NoQuota)

(* validateApiKey before the request, lines 22-55: the result it returns
   without a request, NoAuth when it goes on to makeRequest. *)
EarlyResult(key) ==
  IF baseUrl = "unset"
    THEN AuthResult(FALSE, "Authentication service configuration error", 503,
                    FALSE, NoQuota)
  ELSE IF ~IsTruthy(key) \/ ~IsString(key)
    THEN AuthResult(FALSE, "API key is required", 401, FALSE, NoQuota)
  ELSE IF baseUrl = "invalid"
    THEN AuthResult(FALSE, "Invalid authentication service URL configuration", 503,
                    FALSE, NoQuota)
  ELSE NoAuth

JaasResponse(status, error, remaining) ==
  [status |-> status, error |-> error, remaining |-> remaining]

(* A handler that answers every result that is not valid with 401. *)
JaasHandlerResponse_Always401(source, authResult, code, format, outcome) ==
  IF source = "thrown"
    THEN JaasResponse(503, "Authentication service temporarily unavailable", NoQuota)
  ELSE IF ~authResult.valid
    THEN JaasResponse(401,
                      IF authResult.error # "" THEN authResult.error
                                                ELSE "Invalid API key",
                      authResult.remainingQuota)
  ELSE IF ~code THEN JaasResponse(400, "Missing required field: code", NoQuota)
  ELSE IF format \notin {"svg", "png"} THEN JaasResponse(400, "Invalid format", NoQuota)
  ELSE IF outcome = "highlight_error"
    THEN JaasResponse(400, "Syntax highlighting failed", NoQuota)
  ELSE IF outcome = "render_error" THEN JaasResponse(500, "Internal server error", NoQuota)
  ELSE JaasResponse(200, "", authResult.remainingQuota)

(* A handler that checks the body fields and renders whatever
   validateApiKey returned. *)
JaasHandlerResponse_NoAuthCheck(source, authResult, code, format, outcome) ==
  IF source = "thrown"
    THEN JaasResponse(503, "Authentication service temporarily unavailable", NoQuota)
  ELSE IF ~code THEN JaasResponse(400, "Missing required field: code", NoQuota)
  ELSE IF format \notin {"svg", "png"} THEN JaasResponse(400, "Invalid format", NoQuota)
  ELSE IF outcome = "highlight_error"
    THEN JaasResponse(400, "Syntax highlighting failed", NoQuota)
  ELSE IF outcome = "render_error" THEN JaasResponse(500, "Internal server error", NoQuota)
  ELSE JaasResponse(200, "", authResult.remainingQuota)

(* The JAAS-backed handler after "await validateApiKey(...)", index.js lines
   71-231.  source is "thrown" when the awaited promise rejected. *)
JaasHandlerResponse(source, authResult, code, format, outcome) ==
  IF source = "thrown"
    THEN JaasResponse(503, "Authentication service temporarily unavailable", NoQuota)
  ELSE IF ~authResult.valid
    THEN JaasResponse(IF authResult.statusCode # 0 THEN authResult.statusCode ELSE 401,
                      IF authResult.error # "" THEN authResult.error
                                                ELSE "Invalid API key",
                      authResult.remainingQuota)
  ELSE IF ~code THEN JaasResponse(400, "Missing required field: code", NoQuota)
  ELSE IF format \notin {"svg", "png"} THEN JaasResponse(400, "Invalid format", NoQuota)
  ELSE IF outcome = "highlight_error"
    THEN JaasResponse(400, "Syntax highlighting failed", NoQuota)
  ELSE IF outcome = "render_error" THEN JaasResponse(500, "Internal server error", NoQuota)
  ELSE JaasResponse(200, "", authResult.remainingQuota)

Keys == {"key_abc"}
HeaderKeys == Keys \cup {AbsentToken}
KeyInputs == Keys \cup {AbsentToken, NonStringToken}

JaasNoneReturns == jret' = [i \in Invocations |-> NoJret]

(* The call of invocation i is over: validateApiKey(key) returned result
   after n requests, the last one answered by answer; when the handler made
   the call its continuation answers the request. *)
JaasFinish(i, key, via, answer, result, n) ==
  /\ jaas' = [jaas EXCEPT ![i] = NoCall]
  /\ served' = IF result.valid THEN served \cup {key} ELSE served
  /\ \E r \in Requests :
       jret' = [j \in Invocations |->
                  IF j = i
                    THEN [inv |-> i, key |-> key, via |-> via, bodyOk |-> TRUE,
                          seen |-> IF jaas[i].pc = "pending" THEN jaas[i].seen
                                                             ELSE key \in served,
                          answer |-> answer, result |-> result, nreq |-> n,
                          resp |-> IF via = "handler"
                                     THEN JaasHandlerResponse(
                                            IF result = Rejected THEN "thrown"
                                                                 ELSE "returned",
                                            result, r.code, r.format, r.outcome)
                                     ELSE NoJaasResp]
                    ELSE NoJret]

(* A validateApiKey that remembers the keys it found valid and answers
   for them without a request. *)
validateApiKeyStart_Memo(i, key, via) ==
  IF EarlyResult(key) # NoAuth
    THEN JaasFinish(i, key, via, NoRemote, EarlyResult(key), 0)
  ELSE IF key \in served
    THEN JaasFinish(i, key, via, NoRemote, AuthResult(TRUE, "", 0, FALSE, NoQuota), 0)
    ELSE /\ jaas' = [jaas EXCEPT ![i] = [pc |-> "pending", key |-> key, via |-> via,
                                         nreq |-> jaas[i].nreq + 1,
                                         seen |-> key \in served]]
         /\ JaasNoneReturns
         /\ UNCHANGED served

(* validateApiKey(key) up to "await makeRequest(...)", lines 21-74. *)
validateApiKeyStart(i, key, via) ==
  IF EarlyResult(key) # NoAuth
    THEN JaasFinish(i, key, via, NoRemote, EarlyResult(key), 0)
    ELSE /\ jaas' = [jaas EXCEPT ![i] = [pc |-> "pending", key |-> key, via |-> via,
                                         nreq |-> jaas[i].nreq + 1,
                                         seen |-> key \in served]]
         /\ JaasNoneReturns
         /\ UNCHANGED served

(* A handler that looks for the API key before it parses the body. *)
JaasHandlerCall_KeyFirst(i, key, bodyOk) ==
  /\ jaas[i].pc = "idle"
  /\ IF ~IsTruthy(key) THEN
       /\ jret' = [j \in Invocations |->
                     IF j = i
                       THEN [inv |-> i, key |-> key, via |-> "handler",
                             bodyOk |-> bodyOk, seen |-> FALSE,
                             answer |-> NoRemote, result |-> NoAuth, nreq |-> 0,
                             resp |-> JaasResponse(401, "API key is required", NoQuota)]
                       ELSE NoJret]
       /\ UNCHANGED <<jaas, served>>
     ELSE IF ~bodyOk THEN
       /\ jret' = [j \in Invocations |->
                     IF j = i
                       THEN [inv |-> i, key |-> key, via |-> "handler",
                             bodyOk |-> FALSE, seen |-> key \in served,
                             answer |-> NoRemote, result |-> NoAuth, nreq |-> 0,
                             resp |-> JaasResponse(400, "Invalid JSON in request body",
                                                   NoQuota)]
                       ELSE NoJret]
       /\ UNCHANGED <<jaas, served>>
     ELSE validateApiKeyStart(i, key, "handler")
  /\ UNCHANGED <<storeVars, mode, credPc, credRet, baseUrl>>

(* exports.handler of index.js up to its first suspension, lines 23-73, with
   validateApiKey lines 21-74. *)
JaasHandlerCall(i, key, bodyOk) ==
  /\ jaas[i].pc = "idle"
  /\ IF ~bodyOk THEN
       \* lines 27-39
       /\ jret' = [j \in Invocations |->
                     IF j = i
                       THEN [inv |-> i, key |-> key, via |-> "handler",
                             bodyOk |-> FALSE, seen |-> key \in served,
                             answer |-> NoRemote, result |-> NoAuth, nreq |-> 0,
                             resp |-> JaasResponse(400, "Invalid JSON in request body",
                                                   NoQuota)]
                       ELSE NoJret]
       /\ UNCHANGED <<jaas, served>>
     ELSE IF ~IsTruthy(key) THEN
       \* lines 49-61: validateApiKey is not called
       /\ jret' = [j \in Invocations |->
                     IF j = i
                       THEN [inv |-> i, key |-> key, via |-> "handler",
                             bodyOk |-> TRUE, seen |-> FALSE,
                             answer |-> NoRemote, result |-> NoAuth, nreq |-> 0,
                             resp |-> JaasResponse(401, "API key is required", NoQuota)]
                       ELSE NoJret]
       /\ UNCHANGED <<jaas, served>>
     ELSE validateApiKeyStart(i, key, "handler")
  /\ UNCHANGED <<storeVars, mode, credPc, credRet, baseUrl>>

(* validateApiKey called by another module, with any argument. *)
validateApiKeyCall(i, key) ==
  /\ jaas[i].pc = "idle"
  /\ validateApiKeyStart(i, key, "direct")
  /\ UNCHANGED <<storeVars, mode, credPc, credRet, baseUrl>>

(* makeRequest settles (the response ended, the request failed, or the
   timer of lines 244-248 fired): validateApiKey lines 74-177, then the
   handler's continuation. *)
RemoteDone(i, answer) ==
  /\ jaas[i].pc = "pending"
  /\ JaasFinish(i, jaas[i].key, jaas[i].via, answer, JaasAnswer(answer), jaas[i].nreq)
  /\ UNCHANGED <<storeVars, mode, credPc, credRet, baseUrl>>

(* The process of a JAAS deployment after module load: jaasClient has read
   JAAS_BASE_URL (line 10); the store modules are not used. *)
InitJaas ==
  /\ now = 1
  /\ store = [t \in Tokens |-> NoRow]
  /\ tokenCache = [t \in Tokens |-> NoEntry]
  /\ pool = NoPool
  /\ isInitializing = FALSE
  /\ initPromise = NoPool
  /\ cachedCredentials = FALSE
  /\ secretName = FALSE
  /\ attempts = [a \in Attempts |-> NoAttempt]
  /\ nAttempts = 0
  /\ nPools = 0
  /\ nFetch = 0
  /\ pools = [p \in Attempts |-> "none"]
  /\ errored = {}
  /\ pc = [i \in Invocations |-> "idle"]
  /\ token = [i \in Invocations |-> AbsentToken]
  /\ att = [i \in Invocations |-> 0]
  /\ poolInstance = [i \in Invocations |-> NoPool]
  /\ nq = [i \in Invocations |-> 0]
  /\ why = [i \in Invocations |-> "none"]
  /\ lastOk = [t \in Tokens |-> NoEntry]
  /\ ret = [i \in Invocations |-> NoRet]
  /\ mode = "jaas"
  /\ credPc = [i \in Invocations |-> "idle"]
  /\ credRet = [i \in Invocations |-> NoCredRet]
  /\ baseUrl \in {"unset", "invalid", "ok"}
  /\ jaas = [i \in Invocations |-> NoCall]
  /\ jret = [i \in Invocations |-> NoJret]
  /\ served = {}

NextJaas ==
  \/ \E i \in Invocations, key \in HeaderKeys, bodyOk \in BOOLEAN :
       JaasHandlerCall(i, key, bodyOk)
  \/ \E i \in Invocations, key \in KeyInputs : validateApiKeyCall(i, key)
  \/ \E i \in Invocations, answer \in RemoteAnswers : RemoteDone(i, answer)

SpecJaas == InitJaas /\ [][NextJaas]_vars

(* ------------------------- either deployment -------------------------- *)
(* A process runs one of the two handlers: the store-backed one (part_001)
   or the JAAS-backed one (index.js). *)
InitModes == Init \/ InitJaas

NextModes ==
  \/ mode = "store" /\ Next
  \/ mode = "jaas" /\ NextJaas

SpecModes == InitModes /\ [][NextModes]_vars

(* ============================== properties =========================== *)
(* What the handler invocations returned in the last step. *)
Returned == {ret[i] : i \in Invocations} \ {NoRet}

Inactive(rec) == rec.found /\ rec.is_active = "false"
Expired(rec, time) == rec.found /\ rec.expires_at # NoExpiry /\ rec.expires_at < time

(* Step predicates: invocation i makes its call for tok in this step; the
   call gets as far as query(). *)
Calls(i, tok) ==
  /\ pc[i] = "idle"
  /\ \/ pc'[i] # "idle" /\ token'[i] = tok
     \/ ret'[i].inv = i /\ ret'[i].token = tok

Queries(i) ==
  \/ pc'[i] \in {"gp_await", "q_waitinit", "q_wait"} /\ nq'[i] = 1
  \/ ret'[i].inv = i /\ ret'[i].src = "error" /\ ret'[i].nq = 1

(* ---------------------------------- C1 ------------------------------- *)
\* C1 as stated: a call for a credential whose record is inactive returns
\* isValid=false, whatever its expires_at and whatever was cached before.
\* (The returning step does not write the store, and a cached answer is
\* returned in the step of the call.)
C1_Original ==
  \A r \in Returned :
    r.token \in Tokens /\ Inactive(store[r.token]) => ~r.result.isValid

\* C1 amended: a store lookup that reads an inactive record answers
\* isValid=false with 'Token is inactive', whatever expires_at is and
\* whatever the cache held when the call was made.
C1_StoreLookupRejectsInactive ==
  \A r \in Returned :
    r.src = "store" /\ Inactive(store[r.token])
      => ~r.result.isValid /\ r.result.error = "Token is inactive"

\* An inactive record read by a lookup that followed the eviction of a
\* cached success.
C1_Witness ==
  \E r \in Returned :
    /\ r.src = "store" /\ r.why = "stale"
    /\ Inactive(store[r.token]) /\ ~r.result.isValid

(* ---------------------------------- C2 ------------------------------- *)
\* C2 as stated: a call for a credential whose record's expires_at is
\* earlier than the call returns isValid=false, from the store and from the
\* cache alike.
C2_Original ==
  \A r \in Returned :
    r.token \in Tokens /\ Expired(store[r.token], now) => ~r.result.isValid

\* C2 amended: a store lookup that reads an expired record answers
\* isValid=false; the cache never serves an entry whose own expiresAt is
\* earlier than the call: such an entry is evicted and the store queried.
C2_ExpiredAtLookupOrInCache ==
  \A r \in Returned :
    /\ r.src = "store" /\ Expired(store[r.token], now) => ~r.result.isValid
    /\ r.src = "cache" =>
         r.result.expiresAt = NoExpiry \/ r.result.expiresAt >= now
    /\ r.why = "expired" => r.src \in {"store", "error"} /\ r.nq = 1

\* A cached success past its expiresAt was evicted and the lookup rejected
\* the credential as expired.
C2_Witness ==
  \E r \in Returned :
    /\ r.why = "expired" /\ r.src = "store"
    /\ r.result.error = "Token has expired"

(* ---------------------------------- C3 ------------------------------- *)
Fresh(e, time) ==
  /\ e.present
  /\ time - e.cachedAt < CACHE_TTL
  /\ e.result.expiresAt = NoExpiry \/ e.result.expiresAt >= time

\* C3 as stated: once a store lookup cached a success, every call made less
\* than TTL after the entry was cached and before the record's expires_at
\* returns that result without a store query; a call made once TTL has
\* elapsed issues exactly one store query.
C3_Original ==
  [][\A i \in Invocations, tok \in Tokens :
       Calls(i, tok) /\ lastOk[tok].present =>
         /\ Fresh(lastOk[tok], now) /\ ~Expired(store[tok], now) =>
              /\ ret'[i].inv = i /\ ret'[i].src = "cache" /\ ret'[i].nq = 0
              /\ ret'[i].result = lastOk[tok].result
         /\ now - lastOk[tok].cachedAt >= CACHE_TTL => Queries(i)]_vars

\* C3 amended, state part: the cache entry of a credential is the one the
\* last successful store lookup wrote; a verifyToken call under way has
\* made one query() call, and so has one that answered from the store.
C3_State ==
  /\ \A t \in Tokens : tokenCache[t].present => tokenCache[t] = lastOk[t]
  /\ \A i \in Invocations : pc[i] # "idle" => nq[i] = 1
  /\ \A r \in Returned : r.src \in {"store", "error"} => r.nq = 1

\* C3 amended, step part: a call that finds the entry in the cache, younger
\* than TTL and not past its expiresAt, returns the entry's result without
\* a query and leaves the cache alone; a call that finds it with TTL
\* elapsed evicts it and makes exactly one query.
C3_Step ==
  \A i \in Invocations, tok \in Tokens :
    Calls(i, tok) /\ tokenCache[tok].present =>
      /\ Fresh(tokenCache[tok], now) =>
           /\ ret'[i].inv = i /\ ret'[i].src = "cache" /\ ret'[i].nq = 0
           /\ ret'[i].result = tokenCache[tok].result
           /\ tokenCache' = tokenCache
      /\ now - tokenCache[tok].cachedAt >= CACHE_TTL =>
           /\ Queries(i)
           /\ tokenCache'[tok] = NoEntry

\* C3 amended: while the entry a successful lookup cached is still in the
\* cache, calls within TTL (and not past expiresAt) are served from it with
\* no store query; the call that finds it older than TTL queries once.
C3_ServedWhileCached == []C3_State /\ [][C3_Step]_vars

\* A call one clock unit after the entry was cached is served from it.
C3_Witness ==
  \E r \in Returned :
    /\ r.src = "cache" /\ r.nq = 0
    /\ tokenCache[r.token].present
    /\ now = tokenCache[r.token].cachedAt + 1
    /\ r.result = tokenCache[r.token].result

(* ---------------------------------- C4 ------------------------------- *)
Rejections == {"Token not found", "Token is inactive", "Token has expired"}

InFlightAttempts == {a \in Attempts : attempts[a].st \in {"fetching", "connecting"}}

\* C5: callers that reach getPool while no singleton exists all join the
\* one initialization in flight: it sends at most one secret request,
\* constructs one Pool, and every caller it wakes holds that pool.
C5_SingleFlight ==
  /\ Cardinality(InFlightAttempts) <= 1
  /\ \A a \in InFlightAttempts : initPromise = a /\ isInitializing /\ pool = NoPool
  /\ \A i \in Invocations :
       pc[i] \in {"gp_await", "q_waitinit"} => att[i] \in InFlightAttempts
  /\ \A i, j \in Invocations :
       pc[i] = "q_wait" /\ pc[j] = "q_wait" /\ att[i] # 0 /\ att[i] = att[j] =>
         poolInstance[i] = attempts[att[i]].pool /\ poolInstance[j] = poolInstance[i]
  /\ \A a, b \in Attempts :
       a # b /\ attempts[a].pool # NoPool => attempts[a].pool # attempts[b].pool
  /\ nPools = Cardinality({a \in Attempts : attempts[a].pool # NoPool})
  /\ nPools <= nAttempts /\ nFetch <= nAttempts

\* Two callers of the first initialization hold the same pool: one Pool
\* was constructed, one secret request sent.
C5_Witness ==
  \E i, j \in Invocations :
    /\ i # j /\ pc[i] = "q_wait" /\ pc[j] = "q_wait"
    /\ att[i] = 1 /\ att[j] = 1 /\ poolInstance[i] = poolInstance[j]
    /\ nAttempts = 1 /\ nPools = 1 /\ nFetch = 1

(* ---------------------------------- C6 ------------------------------- *)
\* C6, state part: the guard is set exactly while an initialization is in
\* flight; after a failed one the singleton is unset and the guard clear;
\* nobody waits on, or holds a pool from, a failed attempt.
C6_State ==
  /\ isInitializing = (initPromise # NoPool)
  /\ initPromise # NoPool => initPromise \in InFlightAttempts
  /\ nAttempts > 0 /\ attempts[nAttempts].st = "rejected" =>
       pool = NoPool /\ ~isInitializing /\ initPromise = NoPool
  /\ \A i \in Invocations :
       /\ pc[i] \in {"gp_await", "q_waitinit"} => attempts[att[i]].st # "rejected"
       /\ pc[i] = "q_wait" /\ att[i] # 0 => attempts[att[i]].st = "resolved"

\* C6, step part: when an attempt fails, every caller waiting on it returns
\* the failure; a call that reaches getPool with no singleton and no
\* initialization in flight starts a new attempt.
C6_Step ==
  /\ \A a \in Attempts :
       a \in InFlightAttempts /\ attempts'[a].st = "rejected" =>
         \A i \in Joined(a) :
           ret'[i].inv = i /\ ret'[i].result = VerificationFailed /\ pc'[i] = "idle"
  /\ \A i \in Invocations :
       pc[i] = "idle" /\ Queries(i) /\ pool = NoPool /\ initPromise = NoPool =>
         nAttempts' = nAttempts + 1 /\ attempts'[nAttempts + 1].st # "none"

\* C6: a failed initialization leaves the singleton unset and the guard
\* clear, fails every waiter, and the next getPool call initializes anew.
C6_FailedInitRetried == []C6_State /\ [][C6_Step]_vars

\* A first attempt failed, a second one was started and failed too, and
\* every caller waiting on it got the failure.
C6_Witness ==
  /\ attempts[1].st = "rejected" /\ attempts[2].st = "rejected"
  /\ \A i \in Invocations : ret[i].inv = i /\ ret[i].src = "error"
  /\ pool = NoPool /\ ~isInitializing /\ initPromise = NoPool

(* ---------------------------------- C7 ------------------------------- *)
\* C7, state part: the singleton is never a pool that emitted 'error'
\* while it was the singleton.
C7_State == pool # NoPool => pool \notin errored /\ pools[pool] = "live"

\* C7, step part: the error of the singleton clears it; a caller is never
\* handed an errored pool but the singleton of the moment; a pool entering
\* an initialization is newly constructed.
C7_Step ==
  /\ errored' # errored => pool' = NoPool
  /\ \A i \in Invocations :
       poolInstance'[i] # poolInstance[i] /\ poolInstance'[i] # NoPool =>
         poolInstance'[i] \notin errored /\ poolInstance'[i] = pool'
  /\ \A a \in Attempts :
       attempts'[a].pool # attempts[a].pool =>
         /\ attempts'[a].pool = nPools + 1 /\ nPools' = nPools + 1
         /\ attempts'[a].pool \notin errored

\* C7: after the singleton emits 'error' it is cleared and the next
\* getPool call constructs a new pool.
C7_ErroredPoolReplaced == []C7_State /\ [][C7_Step]_vars

\* The first pool emitted 'error'; a caller holds the pool built after it.
C7_Witness ==
  /\ errored # {} /\ pool # NoPool
  /\ \E i \in Invocations : pc[i] = "q_wait" /\ poolInstance[i] = pool

(* ---------------------------------- C8 ------------------------------- *)
\* C8, state part: verifyToken never throws; a failure of pool acquisition
\* or of the query comes back as the generic failure result.
C8_State ==
  \A r \in Returned :
    /\ r.src # "thrown"
    /\ r.src = "error" =>
         r.result = [isValid |-> FALSE, userId |-> "null",
                     error |-> "Token verification failed", expiresAt |-> NoExpiry]

\* C8, step part: a call that did not answer from the cache, from the
\* store or from its argument check answered with the failure result, and
\* the step wrote no cache entry.
C8_Step ==
  \A i \in Invocations :
    ret'[i].inv = i /\ ret'[i].src \notin {"none", "invalid", "cache", "store"} =>
      /\ ret'[i].src = "error"
      /\ \A t \in Tokens : tokenCache'[t] = tokenCache[t] \/ ~tokenCache'[t].present

\* C8: an exception in pool acquisition or in the query is swallowed:
\* isValid=false, userId null, 'Token verification failed', no cache write.
C8_FailureSwallowed == []C8_State /\ [][C8_Step]_vars

\* The query failed on an existing pool.
C8_Witness ==
  \E r \in Returned :
    /\ r.src = "error" /\ r.result = VerificationFailed
    /\ pool # NoPool /\ ~tokenCache[r.token].present

(* ---------------------------------- C9 ------------------------------- *)
\* C9 as stated: when the store cannot be reached during verification the
\* handler answers 503 and never 401; a credential rejection is never
\* answered with 503.  (With the credentials resolved, a failure is one of
\* connect() or of the query: the store did not answer.)
C9_Original ==
  \A r \in Returned :
    /\ cachedCredentials /\ r.src \in {"error", "thrown"} => r.resp.status = 503
    /\ r.result.error \in Rejections => r.resp.status # 503

(* ---------------------------------- C10 ------------------------------ *)
\* C10 as stated: had the credential been rejected for another reason (not
\* found, inactive, expired), the handler's status and body would have
\* been the same.
C10_Original ==
  \A r \in Returned, rec \in Records :
    r.src = "store" /\ ~r.result.isValid
      /\ ~queryDatabase(r.token, rec, now).isValid
      => HandlerResponse("store", queryDatabase(r.token, rec, now),
                         TRUE, "svg", "ok") = r.resp

\* C10 amended: the status is the same, 401, for every reason of
\* rejection (the body names the reason).
C10_SameStatus ==
  \A r \in Returned, rec \in Records :
    r.src = "store" /\ ~r.result.isValid
      /\ ~queryDatabase(r.token, rec, now).isValid
      => /\ r.resp.status = 401
         /\ HandlerResponse("store", queryDatabase(r.token, rec, now),
                            TRUE, "svg", "ok").status = r.resp.status

\* An inactive credential was answered 401 'Token is inactive'.
C10_Witness ==
  \E r \in Returned :
    /\ r.src = "store" /\ r.result.error = "Token is inactive"
    /\ r.resp = Response(401, "Token is inactive")

(* ---------------------------------- C11 ------------------------------ *)
(* Step predicate: verifyToken(tok) is entered by invocation i in this
   step (the handler does not enter it for a missing token). *)
VerifyCalled(i, tok) ==
  /\ pc[i] = "idle"
  /\ \/ pc'[i] # "idle" /\ token'[i] = tok
     \/ ret'[i].inv = i /\ ret'[i].token = tok /\ ret'[i].src # "none"

\* C11: verifyToken called with an absent, empty or non-string credential
\* returns isValid=false ('Token is required') in the step of the call; the
\* cache is not read or changed, no pool initialization starts, no query is
\* issued.
C11_BadInputTouchesNothing ==
  [][\A i \in Invocations, tok \in BadInputs :
       VerifyCalled(i, tok) =>
         /\ ret'[i].inv = i /\ ret'[i].src = "invalid" /\ ret'[i].why = "none"
         /\ ~ret'[i].result.isValid /\ ret'[i].result.error = "Token is required"
         /\ ret'[i].nq = 0 /\ pc'[i] = "idle"
         /\ UNCHANGED <<tokenCache, poolVars>>]_vars

\* verifyToken(undefined) was rejected while the cache held an entry.
C11_Witness ==
  \E i \in Invocations :
    /\ ret[i].inv = i /\ ret[i].token = AbsentToken /\ ret[i].src = "invalid"
    /\ ret[i].result = TokenRequired
    /\ \E t \in Tokens : tokenCache[t].present

(* ---------------------------------- C12 ------------------------------ *)
\* C12: what a store lookup answers is decided by the record it reads,
\* inactive before expired: no row is 'Token not found', an inactive row is
\* 'Token is inactive' also when its expires_at has passed, an active row
\* past expires_at is 'Token has expired', any other row is valid.
C12_ReasonByRecord ==
  \A r \in Returned :
    r.src = "store" =>
      /\ ~store[r.token].found => r.result.error = "Token not found"
      /\ Inactive(store[r.token]) => r.result.error = "Token is inactive"
      /\ store[r.token].found /\ store[r.token].is_active = "true"
           /\ Expired(store[r.token], now) => r.result.error = "Token has expired"
      /\ store[r.token].found /\ store[r.token].is_active = "true"
           /\ ~Expired(store[r.token], now) => r.result.isValid

\* A row both inactive and past its expires_at was reported as inactive.
C12_Witness ==
  \E r \in Returned :
    /\ r.src = "store"
    /\ Inactive(store[r.token]) /\ Expired(store[r.token], now)
    /\ r.result.error = "Token is inactive"

(* ---------------------------------- C13 ------------------------------ *)
\* C13, state part: with the credentials memoized no initialization is
\* waiting for the secret provider.
C13_State ==
  cachedCredentials => \A a \in Attempts : attempts[a].st # "fetching"

\* C13, step part: once memoized the credentials stay memoized and no
\* further request goes to the secret provider, whatever happens to the
\* pool (pool error, closePool, failed connection test, rebuild).
C13_Step == cachedCredentials => cachedCredentials' /\ nFetch' = nFetch

\* C13: after its first success getDatabaseCredentials answers from the
\* memo for the rest of the process: the provider is fetched successfully
\* at most once.
C13_MemoizedForLife == []C13_State /\ [][C13_Step]_vars

\* The first pool was closed by closePool and a second one is being
\* connected with the memoized credentials: one request was ever sent.
C13_Witness ==
  /\ cachedCredentials /\ nFetch = 1
  /\ pools[1] = "ended" /\ attempts[2].st = "connecting"

(* ---------------------------------- C14 ------------------------------ *)
CredReturned == {credRet[i] : i \in Invocations} \ {NoCredRet}

(* What a caller can test an error's class with: the constructor's name
   (none of these errors carries a code). *)
ErrorClass(e) == e.name

(* The fields the claim lists. *)
ClaimedFields == {"host", "port", "database", "user", "password"}

\* C14 as stated: resolution fails with one class of error when the
\* identifier is unset or the source unreachable, and with another class
\* when any of host, port, database, user, password is missing from the
\* payload (and only then); the caller can tell the classes apart.
C14_Original ==
  \A r \in CredReturned :
    /\ r.answer.kind = "unreachable" =>
         ~r.ok /\ ErrorClass(r.err) = ErrorClass(SecretNameUnset)
    /\ r.answer.kind = "payload" =>
         /\ r.ok = (ClaimedFields \subseteq r.answer.fields)
         /\ ~r.ok => ErrorClass(r.err) # ErrorClass(ParseSecret(Unreachable))

(* ---------------------------------- C15 ------------------------------ *)
(* Every error getPool() can reject with. *)
AcquireErrors ==
  {SecretNameUnset} \cup {ParseSecret(answer) : answer \in FailedAnswers}
    \cup ConnectErrors

\* C15 as stated: the error query() fails with when pool acquisition fails
\* and the one it fails with when the statement's execution fails are of
\* different classes: an error of one stage is never one the other stage
\* can produce.
C15_Original ==
  \A r \in Returned :
    /\ r.stage = "acquire" => r.err \notin ExecuteErrors
    /\ r.stage = "execute" => r.err \notin AcquireErrors

(* ---------------------------------- C16 ------------------------------ *)
\* C16 as stated, for verifyToken: a call waiting for the store to answer
\* its query eventually returns.
C16_Original ==
  \A i \in Invocations : (pc[i] = "q_wait") ~> (pc[i] = "idle")

(* ---------------------------------- C17 ------------------------------ *)
JaasReturned == {jret[i] : i \in Invocations} \ {NoJret}

\* C17, state part: a verifyToken call has made at most one query() call
\* and a validateApiKey call at most one request, while under way and
\* when they return.
C17_State ==
  /\ \A i \in Invocations : nq[i] <= 1 /\ jaas[i].nreq <= 1
  /\ \A r \in Returned : r.nq <= 1
  /\ \A r \in JaasReturned : r.nreq <= 1

\* C17, step part: queries, attempts and requests start only in the step
\* in which the call is made, one attempt at most per getPool call; a call
\* whose query, attempt or request fails returns in that step and nothing
\* is started again.
C17_Step ==
  /\ nAttempts' <= nAttempts + 1
  /\ nAttempts' # nAttempts =>
       \E i \in Invocations : pc[i] = "idle" /\ Queries(i) /\ att'[i] \in {nAttempts', 0}
  /\ \A i \in Invocations :
       /\ att[i] # 0 => att'[i] \in {att[i], 0}
       /\ pc[i] # "idle" => nq'[i] \in {nq[i], 0}
       /\ pc[i] # "idle" /\ ret'[i].inv = i /\ ret'[i].src = "error" =>
            pc'[i] = "idle" /\ nAttempts' = nAttempts /\ ret'[i].nq = 1
       /\ jaas'[i].nreq > jaas[i].nreq => jaas[i].pc = "idle"
       /\ jaas[i].pc = "pending" /\ jret'[i].inv = i =>
            jaas'[i].pc = "idle" /\ jret'[i].nreq = 1

\* C17: no operation retries: one verifyToken call issues at most one
\* store query, one getPool call starts at most one initialization, one
\* validateApiKey call sends at most one request, also when they fail.
C17_NoRetry == []C17_State /\ [][C17_Step]_vars

\* A query failed on the pool of the only initialization: the call
\* returned the failure having issued that one query.
C17_Witness ==
  \E r \in Returned :
    /\ r.src = "error" /\ r.stage = "execute" /\ r.nq = 1
    /\ nAttempts = 1 /\ nPools = 1

(* ---------------------------------- C18 ------------------------------ *)
\* C18: validateApiKey returns valid=true if and only if the remote
\* response has status 200 and a body that parses to an object whose valid
\* member is the boolean true; the result then carries the body's
\* remainingQuota; in every other case valid=false.
C18_ValidIffExplicitTrue ==
  \A r \in JaasReturned :
    /\ r.result.valid =
         (/\ r.answer.kind = "response" /\ r.answer.status = 200
          /\ r.answer.body.kind = "object" /\ r.answer.body.valid = "true")
    /\ r.result.valid => r.result.remainingQuota = r.answer.body.remainingQuota

\* A 200 response with valid: true and remainingQuota: 5 was accepted.
C18_Witness ==
  \E r \in JaasReturned :
    /\ r.answer.status = 200 /\ r.answer.body.valid = "true"
    /\ r.result.valid /\ r.result.remainingQuota = 5

(* ---------------------------------- C19 ------------------------------ *)
(* The messages that contain 'quota' in some letter case. *)
QuotaMessages == {MsgQuotaExceeded, MsgQuotaUpper}

MentionsQuota(body) ==
  body.kind = "object" /\ body.error.type = "string" /\ body.error.text \in QuotaMessages

Is401(r) == r.answer.kind = "response" /\ r.answer.status = 401

Classifiable(body) ==
  body.kind \in {"object", "primitive"} /\ body.error.type \in {"absent", "string"}

WithMessage(answer, msg) ==
  [answer EXCEPT !.body.error = [type |-> "string", text |-> msg]]

\* C20: for a remote 401 response whose error message does not mention
\* quota, the result is (valid=false, 'Invalid API key', 401), and it would
\* have been the same result for any other such message: the remote
\* message does not reach the caller, nor the handler's response.
C20_SameRejection ==
  \A r \in JaasReturned :
    Is401(r) /\ Classifiable(r.answer.body) /\ ~MentionsQuota(r.answer.body) =>
      /\ r.result = AuthResult(FALSE, "Invalid API key", 401, FALSE, NoQuota)
      /\ \A msg \in {MsgQuote, MsgNoKey, MsgRevoked} :
           JaasAnswer(WithMessage(r.answer, msg)) = r.result
      /\ r.via = "handler" => r.resp = JaasResponse(401, "Invalid API key", NoQuota)

\* A 401 'key revoked' came back to the handler as 'Invalid API key'.
C20_Witness ==
  \E r \in JaasReturned :
    /\ Is401(r) /\ r.answer.body.error.text = MsgRevoked /\ r.via = "handler"
    /\ r.result.error = "Invalid API key" /\ r.resp.status = 401

(* ---------------------------------- C21 ------------------------------ *)
Is429(r) == r.answer.kind = "response" /\ r.answer.status = 429

\* C21 as stated: for every remote response with status 429 the result is
\* valid=false with statusCode 429.
C21_Original ==
  \A r \in JaasReturned : Is429(r) => ~r.result.valid /\ r.result.statusCode = 429

\* C21 amended: for a remote 429 response whose body is not empty and
\* parses as JSON the result is valid=false, statusCode 429 ('Rate limit
\* exceeded', no quotaExceeded), whatever the body says; for a 429 response
\* with an empty or unparsable body it is valid=false, statusCode 503.
C21_RateLimitPassed ==
  \A r \in JaasReturned :
    Is429(r) =>
      IF r.answer.body.kind \in {"empty", "unparsable"}
        THEN ~r.result.valid /\ r.result.statusCode = 503
        ELSE r.result = AuthResult(FALSE, "Rate limit exceeded. Please try again later.",
                                   429, FALSE, NoQuota)

\* A 429 whose body is JSON null was passed on as 429.
C21_Witness ==
  \E r \in JaasReturned :
    Is429(r) /\ r.answer.body.kind = "null" /\ r.result.statusCode = 429

(* ---------------------------------- C22 ------------------------------ *)
\* C22: the result is valid=false with statusCode 503 for every remote
\* status other than 200, 401 and 429, for every response whose body is
\* empty or does not parse, and for every failed request: timeout,
\* connection refused, host not found (and any other request error).
C22_Unavailable ==
  \A r \in JaasReturned :
    \/ r.answer.kind = "error"
    \/ r.answer.kind = "response" /\ r.answer.status \notin {200, 401, 429}
    \/ r.answer.kind = "response" /\ r.answer.body.kind \in {"empty", "unparsable"}
    => /\ ~r.result.valid /\ r.result.statusCode = 503 /\ ~r.result.quotaExceeded
       /\ r.via = "handler" => r.resp.status = 503

\* The timer of the request fired: 'Request timeout' came back as 503.
C22_Witness ==
  \E r \in JaasReturned :
    /\ r.answer.kind = "error" /\ r.answer.message = MsgRequestTimeout
    /\ r.result.statusCode = 503
    /\ r.result.error = "Authentication service timeout. Please try again later."

(* ---------------------------------- C23 ------------------------------ *)
(* Step predicate: validateApiKey(key) is entered by invocation i in this
   step. *)
ValidateCalled(i, key) ==
  /\ jaas[i].pc = "idle"
  /\ \/ jaas'[i].pc = "pending" /\ jaas'[i].key = key
     \/ jret'[i].inv = i /\ jret'[i].key = key /\ jret'[i].result # NoAuth

\* C23 as stated: every call with a set base URL and a non-empty string
\* key sends a request.  Violated: a base URL that is set but does not
\* parse as a URL is answered 503 with no request.
C23_Original ==
  [][\A i \in Invocations, key \in Keys :
       ValidateCalled(i, key) /\ baseUrl # "unset" =>
         jaas'[i].pc = "pending" /\ jaas'[i].nreq = 1]_vars

\* C23, state part: the result of a call that sent its request is the one
\* that request's outcome determines, the same whether or not the key was
\* found valid before.
C23_State ==
  \A r \in JaasReturned :
    r.nreq = 1 =>
      /\ r.answer # NoRemote
      /\ r.result = JaasAnswer(r.answer)
      /\ r.result.valid =
           (r.answer.status = 200 /\ r.answer.body.kind = "object"
              /\ r.answer.body.valid = "true")

\* C23, step part: a call with a usable base URL and a non-empty string
\* key sends one request and suspends, whatever earlier calls returned.
C23_Step ==
  \A i \in Invocations, key \in Keys :
    ValidateCalled(i, key) /\ baseUrl = "ok" =>
      /\ jaas'[i].pc = "pending" /\ jaas'[i].nreq = 1
      /\ jret'[i] = NoJret

\* C23 (amended): validateApiKey keeps no state between calls: every call
\* with a base URL that parses and a non-empty string key issues exactly
\* one remote request, whatever earlier calls with the key returned, and
\* its result depends only on that request's outcome.
C23_Stateless == []C23_State /\ [][C23_Step]_vars

\* A key that had been found valid was rejected by the next call's own
\* request.
C23_Witness ==
  \E r \in JaasReturned :
    /\ r.seen /\ r.key \in served /\ r.nreq = 1
    /\ ~r.result.valid /\ r.result.statusCode = 401

(* ---------------------------------- C30 ------------------------------ *)
(* What the handler answers at its fourth and fifth stage: the checks of
   code and format, and rendering. *)
FieldErrors == {"Missing required field: code", "Invalid format"}
RenderErrors == {"Syntax highlighting failed", "Internal server error"}

HandlerReturned == {r \in JaasReturned : r.via = "handler"}

\* C30: the handler parses the body, then looks for the key, then calls
\* validateApiKey, then checks code and format, then renders, and a stage
\* that fails is the last one run: an unparsable body is answered 400 and
\* a missing key 401 with no validateApiKey call and no request, a result
\* that is not valid is answered with that result's error, and a 400 for
\* code or format, a rendering error or a 200 comes after validateApiKey
\* returned valid from its one request.
C30_StageOrder ==
  \A r \in HandlerReturned :
    /\ ~r.bodyOk =>
         /\ r.resp = JaasResponse(400, "Invalid JSON in request body", NoQuota)
         /\ r.result = NoAuth /\ r.nreq = 0
    /\ r.bodyOk /\ ~IsTruthy(r.key) =>
         /\ r.resp = JaasResponse(401, "API key is required", NoQuota)
         /\ r.result = NoAuth /\ r.nreq = 0
    /\ r.bodyOk /\ IsTruthy(r.key) => r.result # NoAuth
    /\ r.result # NoAuth /\ ~r.result.valid =>
         /\ r.resp.error = r.result.error
         /\ r.resp.error \notin FieldErrors \cup RenderErrors
    /\ r.resp.error \in FieldErrors \cup RenderErrors \/ r.resp.status = 200 =>
         /\ r.result # NoAuth /\ r.result.valid
         /\ r.nreq = 1 /\ r.answer # NoRemote /\ r.answer.status = 200

\* A request with a valid key and no code was answered 400 after its
\* remote validation.
C30_Witness ==
  \E r \in HandlerReturned :
    /\ r.resp = JaasResponse(400, "Missing required field: code", NoQuota)
    /\ r.nreq = 1 /\ r.result.valid

(* ---------------------------------- C25 ------------------------------ *)
\* C25: when validateApiKey returned valid=false the handler answers with
\* the status of that result, which is 401, 429 or 503: 401 for a key the
\* service refused or a key that is not a string, 429 for quota or rate
\* limit, 503 when the service is unavailable or the base URL unusable.
C25_StatusPassedOn ==
  \A r \in HandlerReturned :
    r.result # NoAuth /\ ~r.result.valid =>
      /\ r.resp.status = r.result.statusCode
      /\ r.resp.status \in {401, 429, 503}
      /\ r.answer # NoRemote /\ r.answer.status = 429 /\ r.answer.body.kind = "object"
           => r.resp.status = 429
      /\ r.nreq = 0 => r.resp.status = 503
      /\ r.answer # NoRemote /\ r.answer.status = 500 => r.resp.status = 503

\* The handler answered 429 to the rate-limit result of validateApiKey.
C25_Witness ==
  \E r \in HandlerReturned :
    /\ r.result # NoAuth /\ ~r.result.valid
    /\ r.resp.status = 429 /\ ~r.result.quotaExceeded

(* ---------------------------------- C24 ------------------------------ *)
(* The answers of a handler that got as far as rendering. *)
Rendered(resp) == resp.status = 200 \/ resp.error \in RenderErrors

\* C24: in both handlers an invocation gets as far as syntax highlighting
\* and image generation only when its own credential check returned a
\* valid result; a request without a credential, or whose credential was
\* rejected or could not be checked, is not rendered and is not answered
\* 200.
C24_RenderAfterCheck ==
  /\ \A r \in Returned :
       /\ Rendered(r.resp) =>
            /\ IsTruthy(r.token) /\ IsString(r.token)
            /\ r.src \in {"cache", "store"} /\ r.result.isValid
       /\ ~IsTruthy(r.token) \/ ~r.result.isValid \/ r.src \notin {"cache", "store"}
            => r.resp.status \in {401, 503}
  /\ \A r \in HandlerReturned :
       /\ Rendered(r.resp) =>
            /\ r.bodyOk /\ IsTruthy(r.key)
            /\ r.result # NoAuth /\ r.result.valid /\ r.nreq = 1
       /\ ~IsTruthy(r.key) \/ r.result = NoAuth \/ ~r.result.valid
            => r.resp.status \in {400, 401, 429, 503} /\ ~Rendered(r.resp)

\* The remote-service-backed handler rendered a request whose key its
\* validateApiKey call had found valid.
C24_Witness ==
  \E r \in HandlerReturned :
    r.resp.status = 200 /\ r.result.valid /\ r.nreq = 1 /\ mode = "jaas"

(* ---------------------------------- C26 ------------------------------ *)
(* The entry e can no longer be served at time: its age has reached TTL,
   or the expiresAt it holds is past. *)
Unusable(e, time) ==
  \/ time - e.cachedAt >= CACHE_TTL
  \/ e.result.expiresAt # NoExpiry /\ e.result.expiresAt < time

\* C26: a cache entry is unusable from the earlier of the moment its age
\* reaches TTL (age = TTL included) and the moment the expiresAt it holds
\* has passed: the verifyToken call that finds it so deletes it and
\* queries the store, and a call that finds it before both moments is
\* served from it.
C26_Eviction ==
  [][\A i \in Invocations, tok \in Tokens :
       Calls(i, tok) /\ tokenCache[tok].present =>
         /\ Unusable(tokenCache[tok], now) =>
              /\ tokenCache'[tok] = NoEntry
              /\ Queries(i)
              /\ ~(ret'[i].inv = i /\ ret'[i].src = "cache")
         /\ ~Unusable(tokenCache[tok], now) =>
              /\ ret'[i].inv = i /\ ret'[i].src = "cache" /\ ret'[i].nq = 0
              /\ ret'[i].result = tokenCache[tok].result
              /\ tokenCache'[tok] = tokenCache[tok]]_vars

\* A call found an entry younger than TTL whose expiresAt had passed,
\* deleted it and went to the store.
C26_Witness ==
  \E i \in Invocations :
    /\ pc[i] # "idle" /\ why[i] = "expired" /\ nq[i] = 1
    /\ ~tokenCache[token[i]].present
    /\ store[token[i]].found /\ store[token[i]].expires_at # NoExpiry
    /\ store[token[i]].expires_at < now

(* ---------------------------------- C27 ------------------------------ *)
(* Step predicates: clearCache ran; invocation i's store lookup for t
   returned in this step. *)
Cleared ==
  /\ \A u \in Tokens : ~tokenCache'[u].present
  /\ pc' = pc /\ \A i \in Invocations : ret'[i] = NoRet

Answered(i, t) ==
  /\ pc[i] = "q_wait" /\ token[i] = t
  /\ ret'[i].inv = i /\ ret'[i].token = t /\ ret'[i].src = "store"

\* C27: the cache entry of a key changes only in a step of a verifyToken
\* call for that key (its cache check deleting the entry, its store
\* answer writing it) or in clearCache, and it is removed only by the
\* cache check of a call for that key or by clearCache; the entries of
\* all other keys are as they were, stale or not.
C27_OwnKeyOnly ==
  [][\A t \in Tokens :
       /\ tokenCache'[t] # tokenCache[t] =>
            \/ Cleared
            \/ \E i \in Invocations : Calls(i, t) /\ tokenCache'[t] = NoEntry
            \/ \E i \in Invocations :
                 Answered(i, t) /\ tokenCache'[t] = Entry(ret'[i].result, now)
       /\ tokenCache[t].present /\ ~tokenCache'[t].present =>
            \/ Cleared
            \/ \E i \in Invocations : Calls(i, t)
       /\ (\E i \in Invocations, u \in Tokens \ {t} : Calls(i, u) \/ Answered(i, u))
            => tokenCache'[t] = tokenCache[t]]_vars

\* A store answer for one key was cached while the entry of the other key,
\* older than TTL, stayed where it was.
C27_Witness ==
  \E r \in Returned, u \in Tokens :
    /\ r.src = "store" /\ r.result.isValid /\ r.token # u
    /\ tokenCache[r.token] = Entry(r.result, now)
    /\ tokenCache[u].present /\ now - tokenCache[u].cachedAt >= CACHE_TTL

(* ---------------------------------- C28 ------------------------------ *)
(* Step predicates: a pool's 'error' listener ran; the end() that closePool
   awaited resolved. *)
ErrorEmitted ==
  /\ \E p \in Attempts : pools[p] = "live"
  /\ pools' = pools /\ attempts' = attempts /\ pc' = pc

EndResolved == \E p \in Attempts : pools[p] = "ending" /\ pools'[p] = "ended"

\* C28, state part: at most one initialization is in flight, and while one
\* is in flight no singleton is set.
C28_State ==
  /\ Cardinality(InFlightAttempts) <= 1
  /\ InFlightAttempts # {} => pool = NoPool

\* C28, step part: an initialization is started, and a Pool constructed,
\* only with no singleton set and no other initialization in flight; a
\* singleton that is set goes away only by a pool's error listener or by
\* closePool; so every pool but the first is constructed after the one
\* before it failed to initialize or was discarded in one of those ways.
C28_Step ==
  /\ nAttempts' > nAttempts =>
       /\ pool = NoPool /\ InFlightAttempts = {}
       /\ \A a \in Attempts : attempts[a].st \in {"none", "rejected", "resolved"}
  /\ nPools' > nPools =>
       /\ pool = NoPool /\ pool' = NoPool
       /\ InFlightAttempts \subseteq {a \in Attempts : attempts[a].st = "fetching"}
       /\ \A p \in 1..nPools : pools[p] # "connecting"
  /\ pool # NoPool /\ pool' # pool =>
       /\ pool' = NoPool
       /\ ErrorEmitted \/ EndResolved

\* C28: at most one pool initialization is in flight, none is started
\* while a singleton is set, and a pool is constructed again only after
\* the previous singleton was discarded by a pool error or closePool, or
\* the previous initialization failed.
C28_OneInitialization == []C28_State /\ [][C28_Step]_vars

\* A second Pool is being connected after closePool ended the first.
C28_Witness ==
  /\ nPools = 2 /\ pools[1] = "ended" /\ pools[2] = "connecting"
  /\ attempts[1].st = "resolved" /\ attempts[2].st = "connecting"
  /\ pool = NoPool

(* ---------------------------------- C29 ------------------------------ *)
\* C29 as stated: with the record unchanged, a call that found the cache
\* cold returns the result that a concurrent call for the credential has
\* cached, also when only the calls the store answered are counted.
\* Violated: the clock moves between the two answers and the record's
\* expires_at passes.
C29_Original ==
  \A r \in Returned :
    r.why = "miss" /\ r.src = "store" /\ r.nq = 1 /\ tokenCache[r.token].present
      => r.result = tokenCache[r.token].result

\* C29 amended, state part: every call under way has issued its own
\* query; a call the store answered returns what the record gives at the
\* time of the answer, a call whose lookup failed the verification
\* failure; the one entry of the credential, when there is one, is what
\* the record gave when it was written, and a valid answer has just
\* written it.
C29_State ==
  /\ \A i \in Invocations : pc[i] # "idle" => nq[i] = 1
  /\ \A r \in Returned :
       /\ r.src = "store" =>
            /\ r.nq = 1
            /\ r.result = queryDatabase(r.token, store[r.token], now)
            /\ r.result.isValid => tokenCache[r.token] = Entry(r.result, now)
       /\ r.src = "error" => r.nq = 1 /\ r.result = VerificationFailed
  /\ \A t \in Tokens :
       tokenCache[t].present =>
         /\ tokenCache[t].result.isValid
         /\ tokenCache[t].result = queryDatabase(t, store[t], tokenCache[t].cachedAt)

\* C29 amended, step part: an answer that is not valid, and a failed
\* lookup, leave the cache as it is.
C29_Step ==
  \A i \in Invocations :
    pc[i] = "q_wait" /\ ret'[i].inv = i /\ ~ret'[i].result.isValid
      => tokenCache' = tokenCache

\* C29 (amended): concurrent calls on a cold cache each issue their own
\* query; each answered call returns what the unchanged record gives at
\* the time of its answer, so calls answered at different times can
\* differ; the cache holds one entry, the last valid answer, when some
\* call was answered valid, and none otherwise.
C29_OwnQueryOwnAnswer == []C29_State /\ [][C29_Step]_vars

\* Two calls found the cache cold; one was answered valid and cached, the
\* other, answered after the record's expires_at, returned the rejection
\* while the entry stayed.
C29_Witness ==
  \E r \in Returned :
    /\ r.why = "miss" /\ r.src = "store" /\ r.nq = 1
    /\ r.result.error = "Token has expired"
    /\ tokenCache[r.token].present /\ tokenCache[r.token].result.isValid

(* ---------------------------------- C31 ------------------------------ *)
\* C31: when a verifyToken call returns isValid=false as the outcome of its
\* store lookup, the cache holds no entry for that credential.  Violated:
\* a concurrent call, answered while the record was still good, has
\* cached its result, and the rejection removes nothing.
C31_Original ==
  \A r \in Returned :
    r.src = "store" /\ ~r.result.isValid => ~tokenCache[r.token].present

(* ---------------------------------- C33 ------------------------------ *)
\* C33: a store lookup returns isValid=true only when the row's is_active
\* is true; a row whose is_active is null is rejected.  Violated: the test
\* is "is_active === false", which a null passes.
C33_Original ==
  \A r \in Returned :
    r.src = "store" /\ r.result.isValid => store[r.token].is_active = "true"

(* ---------------------------------- C32 ------------------------------ *)
\* C32: every isValid=true result is backed by a store lookup that found
\* the row active and unexpired less than TTL before the return: the
\* call's own lookup, or the one that wrote the entry the call was served
\* from.  The part about TTL holds; the lookup that backs the result can
\* have found a row whose is_active is null (C33), and not only in the
\* call that made it: the result is served from the cache afterwards.
C32_Original ==
  \A r \in Returned :
    r.result.isValid =>
      \/ /\ r.src = "store" /\ r.nq = 1
         /\ store[r.token].found /\ store[r.token].is_active = "true"
         /\ ~Expired(store[r.token], now)
      \/ /\ r.src = "cache" /\ r.nq = 0
         /\ tokenCache[r.token].present /\ r.result = tokenCache[r.token].result
         /\ now - tokenCache[r.token].cachedAt < CACHE_TTL

(* ---------------------------------- C34 ------------------------------ *)
\* C34: the singleton stays set until it reports an error itself or
\* closePool's end() resolves; an 'error' event of a pool that was
\* discarded earlier and has been replaced does not clear it.  Violated:
\* every pool's listener sets the module variable to null.
C34_Original ==
  [][pool # NoPool /\ pool' = NoPool => EndResolved \/ pool \in errored']_vars

(* ---------------------------------- C35 ------------------------------ *)
(* Step predicates.  getPool hands a pool to a caller only if end() has not
   been invoked on it; the end of closePool clears only the pool it ended. *)
ReturnsOpenPool ==
  \A i \in Invocations :
    pc[i] # "q_wait" /\ pc'[i] = "q_wait" =>
      pools'[poolInstance'[i]] \notin {"ending", "ended"}

ClearsOwnPool ==
  \A p \in Attempts :
    pools[p] = "ending" /\ pools'[p] = "ended" /\ pool # NoPool => pool = p

\* C35: under any interleaving of closePool with getPool and query,
\* getPool never returns a pool on which end() has been invoked and
\* closePool never clears a singleton other than the pool it ended.
\* Violated both ways: the singleton stays set while end() is awaited, and
\* closePool's continuation sets the module variable to null whatever it
\* holds by then.
C35_Original == [][ReturnsOpenPool /\ ClearsOwnPool]_vars

(* ---------------------------------- C36 ------------------------------ *)
\* C36: validateApiKey is total: for every key, base URL and remote outcome
\* (any status, any body, also JSON null, a JSON number and an error member
\* that is not a string, any request error) its promise resolves to a
\* result and is not rejected; a result that is not valid carries a
\* statusCode of 401, 429 or 503, and the handler's catch around the call
\* is not entered.
C36_Total ==
  \A r \in JaasReturned :
    r.result # NoAuth =>
      /\ r.result # Rejected
      /\ ~r.result.valid =>
           /\ r.result.statusCode \in {401, 429, 503}
           /\ r.result.error # ""
      /\ r.result.valid => r.answer.kind = "response" /\ r.answer.status = 200
      /\ r.via = "handler" /\ ~r.result.valid =>
           r.resp = JaasResponse(r.result.statusCode, r.result.error, NoQuota)

\* A 200 response whose body is JSON null: the TypeError of line 106 came
\* back as the 503 result of the catch.
C36_Witness ==
  \E r \in JaasReturned :
    /\ r.answer.kind = "response" /\ r.answer.status = 200
    /\ r.answer.body.kind = "null"
    /\ r.result = AuthResult(FALSE, "Authentication service error", 503, FALSE, NoQuota)

(* ---------------------------------- C37 ------------------------------ *)
\* C37: a remote 200 response whose body says valid: false is reported as
\* a rejection of the credential and not as the service being
\* unavailable (statusCode 503).  Violated: the only 200 branch tests
\* valid === true, and every other 200 falls through to the last else.
C37_Original ==
  \A r \in JaasReturned :
    /\ r.answer.kind = "response" /\ r.answer.status = 200
    /\ r.answer.body.kind = "object" /\ r.answer.body.valid = "false"
    => ~r.result.valid /\ r.result.statusCode # 503

=============================================================================
